---------------------------- MODULE Spec2Model ----------------------------
(***************************************************************************)
(* Model of src/src/provider/model/DesktopWindow.ts: the three-layer state *)
(* of a desktop window (currentState / applicationState / modifiedState /  *)
(* temporaryState), the origin-tagged updateState pipeline, the pending-   *)
(* action queue with its sync() barrier, and the snap-group transaction.   *)
(*                                                                         *)
(* Lengths are stored in half units (a stored 7 is 3.5), so that the       *)
(* frame-shadow correction of 3.5 stays an integer.                        *)
(*                                                                         *)
(* JavaScript object identity: the structured fields (center, halfSize)    *)
(* are compared field by field in isModified, and every in-place mutation  *)
(* (Object.assign on applicationState[p], line 859) happens in the same    *)
(* call that replaces currentState[p] and deletes temporaryState[p], so no *)
(* alias of the mutated object survives the call; values are therefore     *)
(* modelled structurally.  The one place where identity is observable is   *)
(* the `!==` of applyOverride (line 668), which takes an explicit flag.    *)
(***************************************************************************)
EXTENDS Integers, Sequences, FiniteSets, TLC

VARIABLES
    lifecycleStage,   \* [Windows -> {"STARTING","READY","ENDING"}]   _lifecycleStage
    currentState,     \* [Windows -> EntityState]                      _currentState
    applicationState, \* [Windows -> EntityState]                      _applicationState
    modifiedState,    \* [Windows -> partial EntityState]              _modifiedState
    temporaryState,   \* [Windows -> partial EntityState]              _temporaryState
    pendingActions,   \* [Windows -> SUBSET ActionIds]  promises of _pendingActions still in flight
    rejectedActions,  \* [Windows -> Nat]  rejected promises that stay in _pendingActions
    listeners,        \* [Windows -> BOOLEAN]  _registeredListeners is non-empty
    initialFetch,     \* [Windows -> 0..MaxPending]  promise of the constructor's getWindowState(), 0 if none
    refreshing,       \* [Windows -> BOOLEAN]  a getWindowState() of refresh() is in flight
    isWin10,          \* BOOLEAN  result of isWin10()
    scope,            \* the fields of EntityState that the operations of this run touch
    history,          \* which of the three history variables below this run records
    last,             \* the operation performed by the last step, with what it issued
    overrideRun,      \* history: the current run of applyOverride calls on one property
    trip,             \* history: round trip of SERVICE updates and their inverses
    snapGroup,        \* [Windows -> GroupIds]  _snapGroup
    prevGroup,        \* [Windows -> GroupIds \cup {0}]  _prevGroup, 0 for null
    groupWindows,     \* [GroupIds -> Seq(Windows)]  the member list of each DesktopSnapGroup
    syncCall,         \* [Windows -> sync]  a sync() called on the window from outside
    transactions,     \* [TxnIds -> transaction]  the calls of transaction() and their records
    snaps,            \* [Windows -> snap]  the snap() in progress on each window
    regroup,          \* [Windows -> setSnapGroup]  the setSnapGroup() in progress on each window
    handlers,         \* [HandlerIds -> handler]  the handleGroupChanged calls in progress
    lastEvent,        \* history: the group-changed event processed by the last step
    events,           \* history: the number of group-changed events delivered so far
    teardown,         \* [Windows -> teardown]  the teardown() of each window
    userInitiatedBoundsChange, \* [Windows -> BoundsChange]  _userInitiatedBoundsChange
    moveInProgress,   \* [Windows -> BOOLEAN]  _moveInProgress
    displayScaling,   \* BOOLEAN  this._model.displayScaling
    transform,        \* history: the bounds event handled by the last step and the drag it belongs to
    native            \* the native windows: their state, the commands and the events in flight

stateVars == <<lifecycleStage, currentState, applicationState, modifiedState, temporaryState,
               pendingActions, rejectedActions, listeners, initialFetch, refreshing, isWin10, scope>>
groupVars == <<snapGroup, prevGroup, groupWindows>>
dragVars == <<userInitiatedBoundsChange, moveInProgress, displayScaling, transform, native>>
procVars == <<syncCall, transactions, snaps, regroup, handlers, lastEvent, events, teardown, dragVars>>
histVars == <<history, last, overrideRun, trip>>
vars == <<stateVars, history, last, overrideRun, trip, groupVars, procVars>>

-----------------------------------------------------------------------------
(* Bounds of the model *)

\* number of promise identities that may be in flight on one window at a time
MaxPending == 2
\* number of rejected promises kept in one window's _pendingActions
MaxRejected == 1
\* length of a run of applyOverride calls that the history distinguishes
MaxRun == 3
\* number of SERVICE updates in a round trip
MaxTrip == 3

\* number of transaction() calls whose records exist at a time, but for the
\* specification of overlapping transactions, which has one more
MaxTxn == 1
\* number of handleGroupChanged calls in progress at a time
MaxHandlers == 1
\* number of DesktopSnapGroup objects alive at a time
MaxGroups == 5
\* number of group-changed events delivered in a run that counts them
MaxEvents == 2
\* number of subscribers of a window's onTeardown signal
MaxSubscribers == 2
\* number of times the application minimizes or restores a window itself
MaxActs == 3

Windows == {"A", "B", "C"}
\* the two windows that start snapped to each other
PairWindows == {"A", "B"}
\* the windows whose state layers the operations of the layer specifications act on
LayerWindows == {"A"}
ActionIds == 1..MaxPending
TxnIds == 1..(MaxTxn + 1)
HandlerIds == 1..MaxHandlers
GroupIds == 1..MaxGroups

-----------------------------------------------------------------------------
(* EntityState *)

Pt(x, y) == [x |-> x, y |-> y]

\* the fields of EntityState that the model updates
Props == {"hidden", "state", "opacity", "center", "halfSize", "resizeConstraints"}
ObjectProps == {"center", "halfSize"}
\* the fields whose values are objects
StructuredProps == ObjectProps \cup {"resizeConstraints"}

WindowStates == {"normal", "minimized", "maximized"}
\* opacity in percent
OpacityValues == {100, 50}
\* (100,100) and (103,100)
CenterValues == {Pt(200, 200), Pt(206, 200)}
\* (50,50)
HalfSizeValues == {Pt(100, 100)}

\* Number.MAX_SAFE_INTEGER, the maxSize of an axis without a maximum; 2^53 - 1 in
\* the program, here the largest integer of the model: it is only ever compared
\* for equality
MAX_SAFE_INTEGER == 2147483647

\* a ResizeConstraint of one axis, resizable at both ends and without a minimum
Constraint(maxSize) ==
    [minSize |-> 0, maxSize |-> maxSize, resizableMin |-> TRUE, resizableMax |-> TRUE]
\* the resizeConstraints of createTemporaryState() (lines 451-454)
Unconstrained == Pt(Constraint(MAX_SAFE_INTEGER), Constraint(MAX_SAFE_INTEGER))
\* no maximum, or a maximum width of 800 or 1000 and a maximum height of 600
ResizeConstraintsValues ==
    {Pt(Constraint(mx), Constraint(my)) :
        mx \in {MAX_SAFE_INTEGER, 800, 1000}, my \in {MAX_SAFE_INTEGER, 600}}

Values(p) ==
    CASE p = "hidden"   -> BOOLEAN
      [] p = "state"    -> WindowStates
      [] p = "opacity"  -> OpacityValues
      [] p = "center"   -> CenterValues
      [] p = "halfSize" -> HalfSizeValues
      [] p = "resizeConstraints" -> ResizeConstraintsValues

\* the states that a query of the window returns
EntityStates ==
    [hidden: BOOLEAN, state: WindowStates, opacity: OpacityValues,
     center: CenterValues, halfSize: HalfSizeValues, frame: BOOLEAN,
     resizeConstraints: {Unconstrained}]

\* the empty partial state {}
Empty == [p \in {} |-> TRUE]

\* Object.assign(target, delta)
Assign(target, delta) ==
    [p \in DOMAIN target \cup DOMAIN delta |-> IF p \in DOMAIN delta THEN delta[p] ELSE target[p]]

\* delete target[p] for every p of ps
Delete(target, ps) == [p \in DOMAIN target \ ps |-> target[p]]

\* deltas with a single field
SingleDeltas == UNION {{[q \in {p} |-> v] : v \in Values(p)} : p \in Props}
\* deltas with center and halfSize, as applyOffset and the bounds events build them
BoundsDeltas == {[center |-> c, halfSize |-> h] : c \in CenterValues, h \in HalfSizeValues}
\* deltas that touch two unrelated fields
PairDeltas == {[hidden |-> h, opacity |-> o] : h \in BOOLEAN, o \in OpacityValues}
Deltas == SingleDeltas \cup BoundsDeltas \cup PairDeltas

\* The fields of a window are independent of each other in updateState, so a run
\* of the model changes the fields of one scope only; every field is in a scope
\* (resizeConstraints in the scope of the specification of the options sent),
\* and so is every pair of fields that one delta of Deltas combines.
Scopes == {{"hidden", "state"}, {"hidden", "opacity"}, {"center", "halfSize"}}

IsReady(w) == lifecycleStage[w] = "READY"

\* isModified(key, prevState, newState); prevState may be partial
IsModified(key, prevState, newState) ==
    IF key \notin DOMAIN prevState THEN TRUE
    ELSE IF key \in ObjectProps
         THEN prevState[key].x # newState[key].x \/ prevState[key].y # newState[key].y
         ELSE IF key = "resizeConstraints"
              THEN \E dir \in {"x", "y"} :
                      LET a == prevState[key][dir]
                          b == newState[key][dir]
                      IN  \/ a.minSize # b.minSize
                          \/ a.maxSize # b.maxSize
                          \/ a.resizableMin # b.resizableMin
                          \/ a.resizableMax # b.resizableMax
              ELSE prevState[key] # newState[key]


-----------------------------------------------------------------------------
(* updateState *)

\* the keys of a delta in the order forEachProperty visits them is irrelevant:
\* every branch below treats each key independently of the others

\* ApplicationMerge without the test of line 857: every field of the delta is
\* taken for the application's
ApplicationMerge_Always(app, delta, cur) ==
    [p \in DOMAIN app |-> IF p \in DOMAIN delta THEN delta[p] ELSE app[p]]

\* origin APPLICATION: applicationState takes the delta's value of every field
\* whose delta value differs from currentState (lines 854-864)
ApplicationMerge(app, delta, cur) ==
    [p \in DOMAIN app |->
        IF p \in DOMAIN delta /\ IsModified(p, delta, cur) THEN delta[p] ELSE app[p]]

\* ServiceModified without the else branch of line 870: an entry is never cleared
ServiceModified_NeverCleared(mod, delta, app) ==
    Assign(mod, [p \in {q \in DOMAIN delta : IsModified(q, delta, app)} |-> delta[p]])

\* origin SERVICE / SERVICE_TEMPORARY: record or clear the modification of every
\* field of the delta, in comparison to applicationState (lines 866-873)
ServiceModified(mod, delta, app) ==
    LET changed == {p \in DOMAIN delta : IsModified(p, delta, app)}
    IN  Assign(Delete(mod, DOMAIN delta), [p \in changed |-> delta[p]])

\* TemporaryBackup without the test of line 880: every override overwrites the backup
TemporaryBackup_Overwrite(tmp, delta, cur) ==
    [p \in DOMAIN tmp \cup DOMAIN delta |-> IF p \in DOMAIN delta THEN cur[p] ELSE tmp[p]]

\* origin SERVICE_TEMPORARY: back up the current value of every field of the
\* delta that has no backup yet (lines 877-883)
TemporaryBackup(tmp, delta, cur) ==
    [p \in DOMAIN tmp \cup DOMAIN delta |-> IF p \in DOMAIN tmp THEN tmp[p] ELSE cur[p]]

\* other origins: the backups of the delta's fields are superseded (lines 884-891)
TemporaryClear(tmp, delta) == Delete(tmp, DOMAIN delta)

\* {left, top, width, height} of window.setBounds (lines 928-939), in half units
SetBoundsArg(delta, cur, win10) ==
    LET c == IF "center" \in DOMAIN delta THEN delta.center ELSE cur.center
        h == IF "halfSize" \in DOMAIN delta THEN delta.halfSize ELSE cur.halfSize
        shadow == win10 /\ cur.frame
        nc == IF shadow THEN Pt(c.x, c.y + 7) ELSE c
        nh == IF shadow THEN Pt(h.x + 14, h.y + 7) ELSE h
    IN  [left |-> nc.x - nh.x, top |-> nc.y - nh.y, width |-> nh.x * 2, height |-> nh.y * 2]

\* maxWidth / maxHeight of lines 944-949: the maximum, -1 to clear a maximum
\* that the previous constraints had, or undefined (here: no value)
MaxSent(maxSize, prevMaxSize) ==
    IF maxSize = MAX_SAFE_INTEGER
    THEN IF prevMaxSize = MAX_SAFE_INTEGER THEN <<>> ELSE <<-1>>
    ELSE <<maxSize>>

\* the options of the updateOptions call of lines 951-966; a field that is
\* undefined is left out
ConstraintOptions(resizeConstraints, prevConstraints) ==
    LET x == resizeConstraints.x
        y == resizeConstraints.y
        maxWidth == MaxSent(x.maxSize, prevConstraints.x.maxSize)
        maxHeight == MaxSent(y.maxSize, prevConstraints.y.maxSize)
    IN  Assign(Assign([resizable |-> x.resizableMin \/ x.resizableMax \/ y.resizableMin \/ y.resizableMax,
                       left |-> x.resizableMin, right |-> x.resizableMax,
                       top |-> y.resizableMin, bottom |-> y.resizableMax,
                       minWidth |-> x.minSize, minHeight |-> y.minSize],
                      [f \in {g \in {"maxWidth"} : maxWidth # <<>>} |-> maxWidth[1]]),
               [f \in {g \in {"maxHeight"} : maxHeight # <<>>} |-> maxHeight[1]])

\* the native commands of a SERVICE / SERVICE_TEMPORARY update, in the order they
\* are pushed (lines 899-972); prevState and prevConstraints are the values read
\* at lines 894-895, cur is currentState after the delta was merged
Commands(delta, prevState, prevConstraints, cur, win10) ==
    LET options == DOMAIN delta \ {"center", "halfSize", "state", "hidden", "resizeConstraints"}
        visibility ==
            IF "hidden" \in DOMAIN delta
            THEN <<[cmd |-> IF delta.hidden THEN "hide" ELSE "show", arg |-> Empty]>>
            ELSE <<>>
        windowState ==
            IF "state" \in DOMAIN delta /\ delta.state # prevState
            THEN CASE delta.state = "normal"    -> <<[cmd |-> "restore", arg |-> Empty]>>
                   [] delta.state = "minimized" -> <<[cmd |-> "minimize", arg |-> Empty]>>
                   [] delta.state = "maximized" -> <<[cmd |-> "maximize", arg |-> Empty]>>
                   [] OTHER                     -> <<>>
            ELSE <<>>
        bounds ==
            IF "center" \in DOMAIN delta \/ "halfSize" \in DOMAIN delta
            THEN <<[cmd |-> "setBounds", arg |-> SetBoundsArg(delta, cur, win10)]>>
            ELSE <<>>
        constraints ==
            IF "resizeConstraints" \in DOMAIN delta
            THEN <<[cmd |-> "updateOptions",
                    arg |-> ConstraintOptions(delta.resizeConstraints, prevConstraints)]>>
            ELSE <<>>
        updateOptions ==
            IF options # {}
            THEN <<[cmd |-> "updateOptions", arg |-> [p \in options |-> delta[p]]]>>
            ELSE <<>>
    IN  visibility \o windowState \o bounds \o constraints \o updateOptions

\* UpdateState with the isReady test of line 848 made for every origin
UpdateState_ReadyForAll(cur, app, mod, tmp, ready, win10, delta, origin) ==
    IF ~ready
    THEN [cur |-> cur, app |-> app, mod |-> mod, tmp |-> tmp, cmds |-> <<>>, threw |-> TRUE]
    ELSE [cur  |-> Assign(cur, delta),
          app  |-> IF origin = "APPLICATION" THEN ApplicationMerge(app, delta, cur) ELSE app,
          mod  |-> IF origin = "APPLICATION" THEN mod ELSE ServiceModified(mod, delta, app),
          tmp  |-> IF origin = "SERVICE_TEMPORARY"
                   THEN TemporaryBackup(tmp, delta, cur)
                   ELSE TemporaryClear(tmp, delta),
          cmds |-> IF origin = "APPLICATION" THEN <<>>
                   ELSE Commands(delta, cur.state, cur.resizeConstraints, Assign(cur, delta), win10),
          threw |-> FALSE]

\* updateState(delta, origin) on a window whose layers are cur, app, mod, tmp:
\* the layers after the call, the commands issued and whether the call threw
UpdateState(cur, app, mod, tmp, ready, win10, delta, origin) ==
    IF origin # "APPLICATION" /\ ~ready
    THEN [cur |-> cur, app |-> app, mod |-> mod, tmp |-> tmp, cmds |-> <<>>, threw |-> TRUE]
    ELSE LET newCur == Assign(cur, delta)
         IN  [cur  |-> newCur,
              app  |-> IF origin = "APPLICATION" THEN ApplicationMerge(app, delta, cur) ELSE app,
              mod  |-> IF origin = "APPLICATION" THEN mod ELSE ServiceModified(mod, delta, app),
              tmp  |-> IF origin = "SERVICE_TEMPORARY"
                       THEN TemporaryBackup(tmp, delta, cur)
                       ELSE TemporaryClear(tmp, delta),
              cmds |-> IF origin = "APPLICATION" THEN <<>>
                       ELSE Commands(delta, cur.state, cur.resizeConstraints, newCur, win10),
              threw |-> FALSE]

\* updateState on window w in the present state
Update(w, delta, origin) ==
    UpdateState(currentState[w], applicationState[w], modifiedState[w], temporaryState[w],
                IsReady(w), isWin10, delta, origin)

-----------------------------------------------------------------------------
(* pending actions *)

\* _pendingActions.length
PendingLength(w) == Cardinality(pendingActions[w]) + rejectedActions[w]

FreeIds(w) == ActionIds \ pendingActions[w]

\* the n smallest free promise identities of window w
NewIds(w, n) == {i \in FreeIds(w) : Cardinality({j \in FreeIds(w) : j < i}) < n}

\* addPendingActions(tag, actions) with n promises (lines 704-723)
AddPendingActions(w, n) == pendingActions[w] \cup NewIds(w, n)

-----------------------------------------------------------------------------
(* sync() *)

\* MAX_AWAITS of sync() (line 606)
MAX_AWAITS == 10

\* a call of sync() on window w: st is where the call stands ("waiting" inside
\* the await of line 612, then "resolved", "timeout" for the rejection of line
\* 615, or "failed" when the awaited Promise.all rejected), count the rounds
\* awaited so far, waiting the promises of the awaited snapshot that are still
\* in flight, left the length of _pendingActions at the last test of line 609
NoSync == [st |-> "idle", w |-> "none", count |-> 0, waiting |-> {}, left |-> 0]

\* `++awaitCount <= MAX_AWAITS` (line 610), awaitCount being the rounds so far
AwaitsAgain_OneShort(awaitCount) == awaitCount + 1 < MAX_AWAITS
AwaitsAgain(awaitCount) == awaitCount + 1 <= MAX_AWAITS

\* SyncLoop with an `if` for the `while` of line 609: only the actions pending
\* at the call are awaited
SyncLoop_SingleAwait(w, awaitCount) ==
    IF PendingLength(w) = 0 \/ awaitCount >= 1
    THEN [st |-> "resolved", w |-> w, count |-> awaitCount, waiting |-> {}, left |-> 0]
    ELSE IF rejectedActions[w] > 0
    THEN [st |-> "failed", w |-> w, count |-> awaitCount + 1, waiting |-> {},
          left |-> PendingLength(w)]
    ELSE [st |-> "waiting", w |-> w, count |-> awaitCount + 1,
          waiting |-> pendingActions[w], left |-> PendingLength(w)]

\* one pass through the loop of sync() (lines 609-616) after awaitCount rounds:
\* Promise.all over a list that holds a rejected promise rejects
SyncLoop(w, awaitCount) ==
    IF PendingLength(w) = 0
    THEN [st |-> "resolved", w |-> w, count |-> awaitCount, waiting |-> {}, left |-> 0]
    ELSE IF AwaitsAgain(awaitCount)
    THEN IF rejectedActions[w] > 0
         THEN [st |-> "failed", w |-> w, count |-> awaitCount + 1, waiting |-> {},
               left |-> PendingLength(w)]
         ELSE [st |-> "waiting", w |-> w, count |-> awaitCount + 1,
               waiting |-> pendingActions[w], left |-> PendingLength(w)]
    ELSE [st |-> "timeout", w |-> w, count |-> awaitCount, waiting |-> {},
          left |-> PendingLength(w)]

\* sync() is called on window w (lines 605-609)
StartSync(w) == SyncLoop(w, 0)

\* the awaited Promise.all has resolved: the loop is tested again
SyncWakes(s) == s.st = "waiting" /\ s.waiting = {}
SyncRound(s) == SyncLoop(s.w, s.count)

SyncSettled(s) == s.st \in {"resolved", "timeout", "failed"}
SyncRejected(s) == s.st \in {"timeout", "failed"}

\* the call s after promise id of window w has resolved (ok) or rejected
SyncAfter(s, w, id, ok) ==
    IF s.st = "waiting" /\ s.w = w /\ id \in s.waiting
    THEN IF ok THEN [s EXCEPT !.waiting = @ \ {id}]
         ELSE [s EXCEPT !.st = "failed", !.waiting = {}]
    ELSE s

-----------------------------------------------------------------------------
(* the asynchronous calls in progress *)

\* a call of transaction(windows, transform) (lines 221-250) and its record in
\* activeTransactions: pc is the await the call stands at ("done" behind the
\* finally block), listed whether the record is in activeTransactions, timer
\* the ticks until the debounced removal fires (-1 when none is scheduled), sync
\* the sync() of each window, unsnap the unsnap() of each window, merged the
\* windows for which a snap() of this call has issued mergeGroups, result what
\* the caller is told, failed the step whose failure ended the call, quiet the
\* ticks since the call ended or an event was last ignored for the record
NoTransaction ==
    [pc |-> "idle", windows |-> {}, listed |-> FALSE, timer |-> -1,
     sync |-> [w \in Windows |-> NoSync], unsnap |-> [w \in Windows |-> "none"],
     merged |-> {}, result |-> "none", failed |-> "none", quiet |-> 0]

\* a call of snap() on a window (lines 762-815): st is "syncing" inside the
\* Promise.all of line 772, "merging" while mergeGroups is in flight, then
\* "resolved" or "rejected"; owner is the transaction that called it (0 for
\* setSnapGroup), group and other the constants of lines 763 and 769, id the
\* joinGroupPromise among the pending actions, target the window merged with
NoSnap ==
    [st |-> "idle", owner |-> 0, group |-> 0, other |-> "none",
     syncThis |-> NoSync, syncOther |-> NoSync, id |-> 0, target |-> "none"]

\* a call of handleGroupChanged (lines 1196-1261) waiting at line 1203
NoHandler ==
    [st |-> "idle", w |-> "none", source |-> "none", reason |-> "none", target |-> "none",
     group |-> {}, sync |-> NoSync]

\* a call of teardown() on a window (lines 418-439): pc is "resetting" at the
\* await of line 429, "emitted" at the await of line 436, "done" behind line
\* 438 and "failed" if an awaited promise has rejected; trigger is "closing" for
\* the call of handleClosing and "deregister" for a call from outside; awaits
\* are the promises of the resetOverride calls of line 430 still in flight, left
\* whether leaveGroup() was called (line 434), signals the signals emitted so
\* far, reverted whether temporaryState was empty when onTeardown was emitted,
\* waiting the subscribers of onTeardown that have not completed; ready is the
\* test of line 426, before the overridden properties at the call and after
\* those left behind line 431
NoTeardown ==
    [pc |-> "idle", trigger |-> "none", ready |-> FALSE, awaits |-> {}, left |-> FALSE,
     signals |-> <<>>, reverted |-> FALSE, waiting |-> 0, before |-> {}, after |-> {}]

\* the handling of a group-changed event by the last step, if it handled one:
\* op is "ignored", "suppressed" or the reason of the event processed
\* ("mergeGone" or "mergeError" if the step saw mergeGroups fail instead), own
\* whether the window it was delivered to is its source window, concerned
\* whether an active transaction held the source or the target window, changed
\* whether a snapGroup or prevGroup changed, cmds the native commands issued
NoEvent == [op |-> "none", own |-> TRUE, concerned |-> FALSE, changed |-> FALSE, cmds |-> 0]

\* the calls in progress after promise id of window w has settled
SyncCallAfter(w, id, ok) == [v \in Windows |-> SyncAfter(syncCall[v], w, id, ok)]
TransactionsAfter(w, id, ok) ==
    [t \in TxnIds |->
        [transactions[t] EXCEPT !.sync = [v \in Windows |-> SyncAfter(@[v], w, id, ok)]]]
SnapsAfter(w, id, ok) ==
    [v \in Windows |->
        [snaps[v] EXCEPT !.syncThis = SyncAfter(@, w, id, ok),
                         !.syncOther = SyncAfter(@, w, id, ok)]]
HandlersAfter(w, id, ok) ==
    [h \in HandlerIds |-> [handlers[h] EXCEPT !.sync = SyncAfter(@, w, id, ok)]]

\* every call of sync() in progress
Syncs ==
    {syncCall[w] : w \in Windows}
        \cup {transactions[t].sync[w] : t \in TxnIds, w \in Windows}
        \cup {snaps[w].syncThis : w \in Windows} \cup {snaps[w].syncOther : w \in Windows}
        \cup {handlers[h].sync : h \in HandlerIds}

\* the promises of window w that a call in progress settles itself
OwnedIds(w) == {initialFetch[w], snaps[w].id} \ {0}

-----------------------------------------------------------------------------
(* history *)

\* overrideRun[w][p] is the run of applyOverride calls on property p of window
\* w since the last other update of p: base is the value before the first call,
\* mid the value before the latest call, n the number of calls, reset whether
\* resetOverride has just ended the run
NoRun == [base |-> 0, mid |-> 0, n |-> 0, reset |-> FALSE]
NoRuns == [w \in Windows |-> [p \in Props |-> NoRun]]

\* the runs after an operation that is no applyOverride and touches the fields
\* ps of window w
RunAfter(w, ps) ==
    IF history # "run" THEN NoRuns
    ELSE [v \in Windows |-> [p \in Props |->
            IF overrideRun[v][p].reset \/ (v = w /\ p \in ps) THEN NoRun ELSE overrideRun[v][p]]]

\* a round trip: undo holds, latest first, the previous values of the fields
\* that each SERVICE update of the trip touched; n counts the updates, dirty
\* tells whether modifiedState was non-empty when the trip turned back
NoTrip == [phase |-> "off", undo |-> <<>>, n |-> 0, dirty |-> FALSE]

\* the names of the commands of a sequence of commands
Names(cmds) == [i \in 1..Len(cmds) |-> cmds[i].cmd]

NoLast == [op |-> "none", cmds |-> <<>>, threw |-> FALSE]
Last(op, w, props, r) ==
    IF history \in {"last", "refresh"}
    THEN [op |-> op, cmds |-> Names(r.cmds), threw |-> r.threw]
    ELSE IF history = "options"
         THEN [op |-> op, cmds |-> r.cmds, threw |-> r.threw, props |-> props,
               before |-> currentState[w],
               after |-> IF "cur" \in DOMAIN r THEN r.cur ELSE currentState[w]]
         ELSE NoLast
LastPlain(op, w) ==
    IF history \in {"last", "refresh"} THEN [op |-> op, cmds |-> <<>>, threw |-> FALSE] ELSE NoLast

\* the layers and the pending actions of window w after an updateState call
Commit(w, r) ==
    /\ currentState' = [currentState EXCEPT ![w] = r.cur]
    /\ applicationState' = [applicationState EXCEPT ![w] = r.app]
    /\ modifiedState' = [modifiedState EXCEPT ![w] = r.mod]
    /\ temporaryState' = [temporaryState EXCEPT ![w] = r.tmp]
    /\ Len(r.cmds) <= Cardinality(FreeIds(w))
    /\ pendingActions' = [pendingActions EXCEPT ![w] = AddPendingActions(w, Len(r.cmds))]


-----------------------------------------------------------------------------
(* construction *)

\* createTemporaryState() (lines 441-459): center (500,300), half-size (200,100)
TemporaryEntityState ==
    [hidden |-> FALSE, state |-> "normal", opacity |-> 100,
     center |-> Pt(1000, 600), halfSize |-> Pt(400, 200), frame |-> FALSE,
     resizeConstraints |-> Unconstrained]

\* the states a window is registered with, or that its first fetch returns
InitialStates ==
    {[hidden |-> FALSE, state |-> "normal", opacity |-> 100,
      center |-> Pt(200, 200), halfSize |-> Pt(100, 100), frame |-> TRUE,
      resizeConstraints |-> Unconstrained]}

\* the constructor (lines 354-409): either a window with a known initial state,
\* READY at once, or a window whose state is being fetched, STARTING
Constructed(withState) ==
    /\ lifecycleStage = [w \in Windows |-> IF withState[w] THEN "READY" ELSE "STARTING"]
    /\ \E s \in [Windows -> InitialStates] :
          /\ currentState = [w \in Windows |-> IF withState[w] THEN s[w] ELSE TemporaryEntityState]
          /\ applicationState = currentState
    /\ modifiedState = [w \in Windows |-> Empty]
    /\ temporaryState = [w \in Windows |-> Empty]
    /\ pendingActions = [w \in Windows |-> IF withState[w] THEN {} ELSE {1}]
    /\ initialFetch = [w \in Windows |-> IF withState[w] THEN 0 ELSE 1]
    /\ rejectedActions = [w \in Windows |-> 0]
    /\ listeners = withState
    /\ refreshing = [w \in Windows |-> FALSE]

\* the first getWindowState() resolves (lines 378-384): the stage becomes READY
\* whatever it was
FetchInitialState(w, s) ==
    /\ initialFetch[w] # 0
    /\ currentState' = [currentState EXCEPT ![w] = s]
    /\ applicationState' = [applicationState EXCEPT ![w] = s]
    /\ lifecycleStage' = [lifecycleStage EXCEPT ![w] = "READY"]
    /\ listeners' = [listeners EXCEPT ![w] = TRUE]
    /\ pendingActions' = [pendingActions EXCEPT ![w] = @ \ {initialFetch[w]}]
    /\ initialFetch' = [initialFetch EXCEPT ![w] = 0]
    /\ syncCall' = SyncCallAfter(w, initialFetch[w], TRUE)
    /\ transactions' = TransactionsAfter(w, initialFetch[w], TRUE)
    /\ snaps' = SnapsAfter(w, initialFetch[w], TRUE)
    /\ handlers' = HandlersAfter(w, initialFetch[w], TRUE)
    /\ last' = LastPlain("fetchInitialState", w)
    /\ overrideRun' = RunAfter(w, Props)
    /\ lastEvent' = NoEvent
    /\ events' = events
    /\ teardown' = teardown
    /\ UNCHANGED dragVars
    /\ UNCHANGED <<modifiedState, temporaryState, rejectedActions, refreshing, isWin10, scope,
                   history, trip, groupVars, regroup>>

-----------------------------------------------------------------------------
(* native events: origin APPLICATION *)

\* updateState(delta, APPLICATION) called by a listener (lines 1001-1024, 1055, 1085)
ApplicationUpdate(op, w, delta) ==
    /\ listeners[w]
    /\ DOMAIN delta \subseteq scope
    /\ Commit(w, Update(w, delta, "APPLICATION"))
    /\ last' = Last(op, w, DOMAIN delta, Update(w, delta, "APPLICATION"))
    /\ overrideRun' = RunAfter(w, DOMAIN delta)
    /\ UNCHANGED <<lifecycleStage, rejectedActions, listeners, initialFetch, refreshing, isWin10,
                   scope, history, trip, groupVars, syncCall, transactions, snaps, regroup,
                   handlers, lastEvent, events, teardown>>

\* a listener that does nothing but call updateState(delta, APPLICATION)
ApplicationEvent(op, w, delta) ==
    /\ ApplicationUpdate(op, w, delta)
    /\ UNCHANGED dragVars

NativeHidden(w) == ApplicationEvent("hidden", w, [hidden |-> TRUE])
NativeShown(w) == ApplicationEvent("shown", w, [hidden |-> FALSE])
NativeMaximized(w) == ApplicationEvent("maximized", w, [state |-> "maximized"])

\* the windows that the minimized and the restored listener of window w pass the
\* state on to (lines 1010-1011, 1018-1019): the other members of its snap
\* group that are not hidden
Propagated(w) ==
    {v \in Windows \ {w} :
        /\ \E i \in 1..Len(groupWindows[snapGroup[w]]) : groupWindows[snapGroup[w]][i] = v
        /\ ~currentState[v].hidden}

\* the updateState calls of the minimized / restored listener of window w (lines
\* 1008-1023): origin APPLICATION on w, applyProperties on the windows the
\* state is passed on to; an applyProperties that throws leaves a rejected
\* promise that nobody awaits
StateUpdates(w, state) ==
    [v \in Windows |->
        IF v = w THEN Update(w, [state |-> state], "APPLICATION")
        ELSE IF v \in Propagated(w) THEN Update(v, [state |-> state], "SERVICE")
        ELSE [cur |-> currentState[v], app |-> applicationState[v], mod |-> modifiedState[v],
              tmp |-> temporaryState[v], cmds |-> <<>>, threw |-> FALSE]]

\* the minimized / restored listener of window w
StateChanged(op, w, state) ==
    /\ listeners[w]
    /\ "state" \in scope
    /\ LET r == StateUpdates(w, state)
       IN  /\ currentState' = [v \in Windows |-> r[v].cur]
           /\ applicationState' = [v \in Windows |-> r[v].app]
           /\ modifiedState' = [v \in Windows |-> r[v].mod]
           /\ temporaryState' = [v \in Windows |-> r[v].tmp]
           /\ \A v \in Windows : Len(r[v].cmds) <= Cardinality(FreeIds(v))
           /\ pendingActions' = [v \in Windows |-> AddPendingActions(v, Len(r[v].cmds))]
           /\ last' = Last(op, w, {"state"}, r[w])
    /\ overrideRun' = RunAfter(w, {"state"})
    /\ UNCHANGED <<lifecycleStage, rejectedActions, listeners, initialFetch, refreshing, isWin10,
                   scope, history, trip, groupVars, syncCall, transactions, snaps, regroup,
                   handlers, lastEvent, events, teardown>>

NativeMinimized(w) == StateChanged("minimized", w, "minimized") /\ UNCHANGED dragVars
NativeRestored(w) == StateChanged("restored", w, "normal") /\ UNCHANGED dragVars

\* the native windows as far as minimize and restore go: state is the state of
\* the native window, commands the minimize and restore commands of the service
\* that it has not carried out yet, each with its promise, events the minimized
\* and restored events that it has raised and whose listener has not run yet;
\* acts counts the times that the application minimized or restored a window
NoNative ==
    [win |-> [w \in Windows |-> [state |-> "normal", commands |-> <<>>, events |-> <<>>]],
     acts |-> 0]

\* the state that a command leaves the native window in, and the event of a state
StateOf(cmd) == IF cmd = "minimize" THEN "minimized" ELSE "normal"
EventOf(state) == IF state = "minimized" THEN "minimized" ELSE "restored"

\* the native window of w goes to state: it raises the event if the state is new
NativeAfter(nw, state) ==
    IF nw.state = state THEN nw
    ELSE [nw EXCEPT !.state = state, !.events = Append(@, EventOf(state))]

\* the application minimizes or restores the native window of w itself
ApplicationSets(w, state) ==
    /\ native.acts < MaxActs
    /\ native.win[w].state # state
    /\ native' = [native EXCEPT !.acts = @ + 1, !.win[w] = NativeAfter(@, state)]
    /\ last' = LastPlain("applicationSets", w)
    /\ overrideRun' = RunAfter(w, {})
    /\ UNCHANGED <<stateVars, history, trip, groupVars, syncCall, transactions, snaps, regroup,
                   handlers, lastEvent, events, teardown, userInitiatedBoundsChange,
                   moveInProgress, displayScaling, transform>>

\* the oldest event of the native window of w is delivered: its listener runs,
\* and the minimize and restore commands that it issues are sent to the native
\* windows of the other members
EventDelivered(w) ==
    /\ native.win[w].events # <<>>
    /\ LET event == Head(native.win[w].events)
           state == IF event = "minimized" THEN "minimized" ELSE "normal"
           r == StateUpdates(w, state)
           sent(v) == IF r[v].cmds = <<>> THEN <<>>
                      ELSE <<[cmd |-> r[v].cmds[1].cmd, id |-> CHOOSE i \in NewIds(v, 1) : TRUE]>>
       IN  /\ StateChanged(event, w, state)
           /\ native' = [native EXCEPT !.win = [v \in Windows |->
                              [native.win[v] EXCEPT
                                  !.events = IF v = w THEN Tail(@) ELSE @,
                                  !.commands = @ \o sent(v)]]]
    /\ UNCHANGED <<userInitiatedBoundsChange, moveInProgress, displayScaling, transform>>

\* the native window of w carries out the oldest command: the promise of the
\* command resolves (lines 725-732) and the event of a new state is raised
CommandExecuted(w) ==
    /\ native.win[w].commands # <<>>
    /\ LET command == Head(native.win[w].commands)
       IN  /\ native' = [native EXCEPT !.win[w] =
                             NativeAfter([@ EXCEPT !.commands = Tail(@)], StateOf(command.cmd))]
           /\ pendingActions' = [pendingActions EXCEPT ![w] = @ \ {command.id}]
    /\ last' = LastPlain("commandExecuted", w)
    /\ overrideRun' = RunAfter(w, {})
    /\ UNCHANGED <<lifecycleStage, currentState, applicationState, modifiedState, temporaryState,
                   rejectedActions, listeners, initialFetch, refreshing, isWin10, scope,
                   history, trip, groupVars, syncCall, transactions, snaps, regroup, handlers,
                   lastEvent, events, teardown, userInitiatedBoundsChange, moveInProgress,
                   displayScaling, transform>>

\* the updateState of bounds-changing / bounds-changed (lines 1055, 1085) with
\* the bounds that checkBounds maps to center c and half-size h, when no drag
\* of the user is followed
NativeBounds(w, c, h) == ApplicationEvent("bounds", w, [center |-> c, halfSize |-> h])

-----------------------------------------------------------------------------
(* the bounds of a drag of the user *)

\* eTransformType (lines 62-65)
MOVE == 1
RESIZE == 2
\* lines 117-118
MINIMUM_RESIZE_CHANGE == 2
MINIMUM_MOVE_CHANGE == 2

\* the geometry of the model is in half units, (100,100) is Pt(200, 200): a
\* half-size of the model is the source's half-size times two
Abs(x) == IF x < 0 THEN -x ELSE x
\* Math.sign
Sign(x) == IF x > 0 THEN 1 ELSE IF x < 0 THEN -1 ELSE 0

\* a | b for masks of eTransformType
MaskOr(a, b) ==
    (IF a % 2 = 1 \/ b % 2 = 1 THEN MOVE ELSE 0) + (IF a >= RESIZE \/ b >= RESIZE THEN RESIZE ELSE 0)

\* Math.sign(center - start.center) without the fallback of line 1113
CenterChangeSign_Zero(d) == Sign(d)
\* Math.sign(center[axis] - startBounds.center[axis]) || 1 (line 1113)
CenterChangeSign(d) == IF Sign(d) = 0 THEN 1 ELSE Sign(d)

\* resize of evaluateAxis (line 1104): the source doubles the difference of the
\* half-sizes
AxisResized(start, h, axis) == Abs(h[axis] - start.halfSize[axis]) > MINIMUM_RESIZE_CHANGE

\* expectedCenter of evaluateAxis (lines 1105-1118)
ExpectedCenter(start, c, h, axis) ==
    IF ~AxisResized(start, h, axis) THEN start.center[axis]
    ELSE LET sizeChangeSign == Sign(h[axis] - start.halfSize[axis])
             expectedEdgeChanged == sizeChangeSign * CenterChangeSign(c[axis] - start.center[axis])
         IN  start.center[axis] + expectedEdgeChanged * (h[axis] - start.halfSize[axis])

\* move of evaluateAxis (line 1120), in half units
AxisMoved(start, c, h, axis) ==
    Abs(ExpectedCenter(start, c, h, axis) - c[axis]) > 2 * MINIMUM_MOVE_CHANGE

\* evaluateAxis(axis) (lines 1103-1123)
EvaluateAxis(start, c, h, axis) ==
    (IF AxisMoved(start, c, h, axis) THEN MOVE ELSE 0)
        + (IF AxisResized(start, h, axis) THEN RESIZE ELSE 0)

\* a classification that keeps the mask as evaluated
MoveBias_None(type) == type
\* lines 1129-1131: a mask with the MOVE bit becomes MOVE
MoveBias(type) == IF type % 2 = 1 THEN MOVE ELSE type

\* _userInitiatedBoundsChange of a window that the user does not drag (null)
NoBoundsChange ==
    [set |-> FALSE, startBounds |-> [center |-> Pt(0, 0), halfSize |-> Pt(0, 0)], transformType |-> 0]

\* updateTransformType(event, boundsChange) (lines 1092-1146) for an event with
\* center c, half-size h and changeType: the new mask of the record, the type
\* returned and the calls made on the snap group
UpdateTransformType(boundsChange, c, h, changeType) ==
    IF displayScaling
    THEN LET prevTransformType == boundsChange.transformType
             x == MaskOr(prevTransformType, EvaluateAxis(boundsChange.startBounds, c, h, "x"))
             newTransformType == MoveBias(MaskOr(x, EvaluateAxis(boundsChange.startBounds, c, h, "y")))
         IN  [transformType |-> newTransformType,
              returned |-> newTransformType,
              calls |-> IF newTransformType = MOVE /\ prevTransformType # MOVE
                        THEN <<"suspendResizeConstraints">>
                        ELSE IF newTransformType # MOVE /\ prevTransformType = MOVE
                             THEN <<"restoreResizeConstraints">>
                             ELSE <<>>]
    ELSE [transformType |-> boundsChange.transformType, returned |-> changeType + 1, calls |-> <<>>]

\* a restore at every commit but that of a drag never classified MOVE
CommitRestores_OfMove(type) == displayScaling /\ type = MOVE
\* lines 1060-1062: the commit of a drag of type `type` restores the resize
\* constraints of the snap group
CommitRestores(type) == displayScaling

\* the bounds event handled by the last step: op is its handler, set whether
\* a drag was followed, start the start bounds of the drag, center and
\* halfSize the sample, prev the mask of the drag before the event (0 at its
\* begin), returned the type that updateTransformType returned, calls the
\* calls made on the snap group, moved whether an axis of some sample of the
\* drag was judged moved, suspends the number of suspendResizeConstraints
\* calls of the drag so far (counted up to 2), signal the signal that the
\* handler emitted, cause what made the native window raise the event
NoTransform ==
    [op |-> "none", set |-> FALSE, start |-> NoBoundsChange.startBounds, center |-> Pt(0, 0),
     halfSize |-> Pt(0, 0), prev |-> 0, returned |-> 0, calls |-> <<>>, moved |-> FALSE,
     suspends |-> 0, signal |-> "none", cause |-> "window"]

Transformed(op, before, c, h, u, calls, first) ==
    [op |-> op, set |-> before.set, start |-> before.startBounds, center |-> c, halfSize |-> h,
     prev |-> before.transformType, returned |-> u.returned, calls |-> calls,
     moved |-> (~first /\ transform.moved)
                 \/ AxisMoved(before.startBounds, c, h, "x") \/ AxisMoved(before.startBounds, c, h, "y"),
     suspends |-> LET n == (IF first THEN 0 ELSE transform.suspends)
                           + Cardinality({i \in DOMAIN calls : calls[i] = "suspendResizeConstraints"})
                  IN  IF n > 2 THEN 2 ELSE n,
     signal |-> CASE op = "changing" -> "onTransform"
                  [] op = "changed"  -> "onCommit"
                  [] OTHER           -> "none",
     cause |-> "window"]

\* handleBeginUserBoundsChanging (lines 1148-1154)
BeginUserBoundsChanging(w, c, h, changeType) ==
    /\ listeners[w]
    /\ LET begun == [set |-> TRUE,
                     startBounds |-> [center |-> currentState[w].center,
                                      halfSize |-> currentState[w].halfSize],
                     transformType |-> 0]
           u == UpdateTransformType(begun, c, h, changeType)
       IN  /\ userInitiatedBoundsChange' =
                  [userInitiatedBoundsChange EXCEPT ![w] = [begun EXCEPT !.transformType = u.transformType]]
           /\ transform' = Transformed("begin", begun, c, h, u, u.calls, TRUE)
    /\ last' = LastPlain("beginUserBoundsChanging", w)
    /\ UNCHANGED <<stateVars, history, overrideRun, trip, groupVars, syncCall, transactions, snaps,
                   regroup, handlers, lastEvent, events, teardown, moveInProgress, displayScaling,
                   native>>

\* handleBoundsChanging (lines 1070-1090): onTransform is emitted with the
\* returned type if a drag is followed
BoundsChanging(w, c, h, changeType) ==
    /\ moveInProgress' = [moveInProgress EXCEPT ![w] = TRUE]
    /\ LET before == userInitiatedBoundsChange[w]
           u == UpdateTransformType(before, c, h, changeType)
       IN  IF before.set
           THEN /\ userInitiatedBoundsChange' =
                       [userInitiatedBoundsChange EXCEPT ![w].transformType = u.transformType]
                /\ transform' = Transformed("changing", before, c, h, u, u.calls, FALSE)
           ELSE /\ userInitiatedBoundsChange' = userInitiatedBoundsChange
                /\ transform' = [NoTransform EXCEPT !.op = "changing", !.center = c, !.halfSize = h]
    /\ ApplicationUpdate("boundsChanging", w, [center |-> c, halfSize |-> h])
    /\ displayScaling' = displayScaling
    /\ native' = native

\* handleBoundsChanged (lines 1042-1068): if a drag is followed onCommit is
\* emitted with the returned type, the resize constraints are restored and
\* the record is dropped, else onModified is emitted; the handler does not
\* look at what caused the event
HandleBoundsChanged(w, c, h, changeType, cause) ==
    /\ moveInProgress' = [moveInProgress EXCEPT ![w] = FALSE]
    /\ LET before == userInitiatedBoundsChange[w]
           u == UpdateTransformType(before, c, h, changeType)
       IN  IF before.set
           THEN /\ userInitiatedBoundsChange' = [userInitiatedBoundsChange EXCEPT ![w] = NoBoundsChange]
                /\ transform' = [Transformed("changed", before, c, h, u,
                                             IF CommitRestores(u.returned)
                                             THEN Append(u.calls, "restoreResizeConstraints")
                                             ELSE u.calls,
                                             FALSE) EXCEPT !.cause = cause]
           ELSE /\ userInitiatedBoundsChange' = userInitiatedBoundsChange
                /\ transform' = [NoTransform EXCEPT !.op = "changed", !.center = c, !.halfSize = h,
                                                    !.signal = "onModified", !.cause = cause]
    /\ ApplicationUpdate("boundsChanged", w, [center |-> c, halfSize |-> h])
    /\ displayScaling' = displayScaling
    /\ native' = native

\* a bounds-changed event of the native window
BoundsChanged(w, c, h, changeType) == HandleBoundsChanged(w, c, h, changeType, "window")

\* the bounds-changed event that the native window raises when it carries out a
\* setBounds command of the service (lines 928-939) that is still pending
SetBoundsChanged(w, c, h, changeType) ==
    /\ pendingActions[w] # {}
    /\ HandleBoundsChanged(w, c, h, changeType, "setBounds")

\* refresh() (lines 620-648): the query starts only on a READY window (line
\* 623), on any other the call returns a resolved promise (line 646)
RefreshCall(w) ==
    /\ ~refreshing[w]
    /\ refreshing' = [refreshing EXCEPT ![w] = IsReady(w)]
    /\ last' = LastPlain("refreshCall", w)
    /\ overrideRun' = RunAfter(w, {})
    /\ UNCHANGED <<lifecycleStage, currentState, applicationState, modifiedState, temporaryState,
                   pendingActions, rejectedActions, listeners, initialFetch, isWin10, scope, history, trip, groupVars, procVars>>

\* a refresh that folds in every field that differs from applicationState
RefreshModifications_All(w, state) ==
    [p \in {q \in Props : IsModified(q, applicationState[w], state)} |-> state[p]]

\* the fields of the queried state that refresh folds in (lines 629-635)
RefreshModifications(w, state) ==
    LET found == {p \in Props :
                    /\ IsModified(p, applicationState[w], state)
                    /\ (p \notin DOMAIN modifiedState[w] \/ IsModified(p, modifiedState[w], state))}
    IN  [p \in found |-> state[p]]

\* the query of refresh() resolves with the native state
RefreshResult(w, state) ==
    /\ refreshing[w]
    /\ \A p \in DOMAIN state \ scope : state[p] = currentState[w][p]
    /\ LET delta == RefreshModifications(w, state)
           r == IF delta = Empty
                THEN [cur |-> currentState[w], app |-> applicationState[w], mod |-> modifiedState[w],
                      tmp |-> temporaryState[w], cmds |-> <<>>, threw |-> FALSE]
                ELSE Update(w, delta, "APPLICATION")
       IN  /\ Commit(w, r)
           /\ last' = IF history = "refresh"
                      THEN [state |-> state] @@ Last("refresh", w, DOMAIN delta, r)
                      ELSE Last("refresh", w, DOMAIN delta, r)
           /\ overrideRun' = RunAfter(w, DOMAIN delta)
    /\ refreshing' = [refreshing EXCEPT ![w] = FALSE]
    /\ UNCHANGED <<lifecycleStage, rejectedActions, listeners, initialFetch, isWin10, scope, history, trip, groupVars, procVars>>

-----------------------------------------------------------------------------
(* service commands: origin SERVICE and SERVICE_TEMPORARY *)

\* applyProperties(properties) (lines 663-665)
ApplyProperties(w, delta) ==
    /\ DOMAIN delta \subseteq scope
    /\ Commit(w, Update(w, delta, "SERVICE"))
    /\ last' = Last("applyProperties", w, DOMAIN delta, Update(w, delta, "SERVICE"))
    /\ overrideRun' = RunAfter(w, DOMAIN delta)
    /\ UNCHANGED <<lifecycleStage, rejectedActions, listeners, initialFetch, refreshing, isWin10, scope, history, trip, groupVars, procVars>>

\* value !== this._currentState[property] (line 668): primitives differ by
\* value, objects by identity
StrictlyDiffers(p, value, curValue, sameObject) ==
    IF p \in StructuredProps THEN ~sameObject ELSE value # curValue

\* the runs after one more applyOverride of property p of window w
RunExtended(w, p) ==
    IF history # "run" \/ ~IsReady(w) THEN RunAfter(w, {p})
    ELSE [RunAfter(w, {}) EXCEPT ![w][p] =
            IF overrideRun[w][p].n > 0 /\ ~overrideRun[w][p].reset
            THEN [overrideRun[w][p] EXCEPT !.n = IF @ < MaxRun THEN @ + 1 ELSE @,
                                           !.mid = currentState[w][p]]
            ELSE [base |-> currentState[w][p], mid |-> currentState[w][p],
                  n |-> 1, reset |-> FALSE]]

\* applyOverride(property, value) (lines 667-671); sameObject: the caller passes
\* the very object that currentState holds
ApplyOverride(w, p, value, sameObject) ==
    /\ p \in scope
    /\ sameObject => (p \in StructuredProps /\ value = currentState[w][p])
    /\ LET r == IF StrictlyDiffers(p, value, currentState[w][p], sameObject)
                THEN Update(w, [q \in {p} |-> value], "SERVICE_TEMPORARY")
                ELSE [cur |-> currentState[w], app |-> applicationState[w], mod |-> modifiedState[w],
                      tmp |-> temporaryState[w], cmds |-> <<>>, threw |-> FALSE]
       IN  /\ Commit(w, r)
           /\ last' = Last("applyOverride", w, {p}, r)
    /\ overrideRun' = RunExtended(w, p)
    /\ UNCHANGED <<lifecycleStage, rejectedActions, listeners, initialFetch, refreshing, isWin10, scope, history, trip, groupVars, procVars>>

\* resetOverride(property) (lines 673-679): the backup is written to
\* currentState before updateState is called
ResetOverride(w, p) ==
    /\ p \in scope
    /\ LET r == IF p \in DOMAIN temporaryState[w]
                THEN LET value == temporaryState[w][p]
                     IN  UpdateState(Assign(currentState[w], [q \in {p} |-> value]),
                                     applicationState[w], modifiedState[w], temporaryState[w],
                                     IsReady(w), isWin10, [q \in {p} |-> value], "SERVICE")
                ELSE [cur |-> currentState[w], app |-> applicationState[w], mod |-> modifiedState[w],
                      tmp |-> temporaryState[w], cmds |-> <<>>, threw |-> FALSE]
       IN  /\ Commit(w, r)
           /\ last' = Last("resetOverride", w, {p}, r)
    /\ overrideRun' = IF history = "run" /\ overrideRun[w][p].n > 0 /\ IsReady(w)
                      THEN [RunAfter(w, {}) EXCEPT ![w][p] = [overrideRun[w][p] EXCEPT !.reset = TRUE]]
                      ELSE RunAfter(w, {p})
    /\ UNCHANGED <<lifecycleStage, rejectedActions, listeners, initialFetch, refreshing, isWin10, scope, history, trip, groupVars, procVars>>

\* what the caller of the service command op is told, threw being whether its
\* updateState threw: applyProperties does not return the promise of
\* updateState (line 664), the other commands do (lines 669, 677)
Reported(op, threw) ==
    IF op = "applyProperties" THEN "resolved"
    ELSE IF threw THEN "rejected" ELSE "resolved"

-----------------------------------------------------------------------------
(* lifecycle *)

\* close() (lines 658-661)
Close(w) ==
    /\ FreeIds(w) # {}
    /\ lifecycleStage' = [lifecycleStage EXCEPT ![w] = "ENDING"]
    /\ pendingActions' = [pendingActions EXCEPT ![w] = AddPendingActions(w, 1)]
    /\ last' = Last("close", w, {}, [cmds |-> <<[cmd |-> "close", arg |-> Empty]>>, threw |-> FALSE])
    /\ overrideRun' = RunAfter(w, Props)
    /\ UNCHANGED <<currentState, applicationState, modifiedState, temporaryState, rejectedActions,
                   listeners, initialFetch, refreshing, isWin10, scope, history, trip, groupVars, procVars>>

\* Object.keys(this._temporaryState) (line 428), in a fixed order
PropOrder == <<"hidden", "state", "opacity", "center", "halfSize">>
Overrides(tmp) == SelectSeq(PropOrder, LAMBDA p : p \in DOMAIN tmp)

\* overrides.map(resetOverride) (lines 429-431), each resetOverride as in lines
\* 673-679; r holds the layers and the commands issued so far
RECURSIVE ResetOverrides(_, _, _, _)
ResetOverrides(r, ready, win10, ps) ==
    IF ps = <<>> \/ r.threw THEN r
    ELSE LET p == Head(ps)
             value == r.tmp[p]
             u == UpdateState(Assign(r.cur, [q \in {p} |-> value]), r.app, r.mod, r.tmp,
                              ready, win10, [q \in {p} |-> value], "SERVICE")
         IN  ResetOverrides([u EXCEPT !.cmds = r.cmds \o @], ready, win10, Tail(ps))

\* the test of line 426 had handleClosing not changed the stage before
TeardownReady_BeforeClosing(w, trigger) == IsReady(w)
\* this.isReady at line 426 of a teardown() that a native closing event or
\* a caller outside has started: handleClosing has set the stage to ENDING
\* before (line 1177)
TeardownReady(w, trigger) == trigger = "deregister" /\ IsReady(w)

\* onTeardown.emit(this) (line 436) by the teardown t of a window whose
\* temporaryState is tmp: every subscriber is called and awaited
Emitted(t, tmp) ==
    [t EXCEPT !.pc = "emitted", !.signals = Append(@, "teardown"), !.reverted = tmp = Empty,
              !.waiting = MaxSubscribers]

\* teardown() up to its first await (lines 418-436); the window is in no tab
\* group
Teardown(w, trigger) ==
    LET t == [NoTeardown EXCEPT !.trigger = trigger, !.before = DOMAIN temporaryState[w]]
    IN  IF TeardownReady(w, trigger)
        THEN LET r == ResetOverrides([cur |-> currentState[w], app |-> applicationState[w],
                                      mod |-> modifiedState[w], tmp |-> temporaryState[w],
                                      cmds |-> <<>>, threw |-> FALSE],
                                     TRUE, isWin10, Overrides(temporaryState[w]))
             IN  /\ Commit(w, r)
                 /\ teardown' = [teardown EXCEPT ![w] =
                        [t EXCEPT !.pc = IF r.threw THEN "failed" ELSE "resetting",
                                  !.ready = TRUE,
                                  !.awaits = NewIds(w, Len(r.cmds)),
                                  !.after = DOMAIN r.tmp]]
        ELSE /\ teardown' = [teardown EXCEPT ![w] =
                    Emitted([t EXCEPT !.after = t.before], temporaryState[w])]
             /\ UNCHANGED <<currentState, applicationState, modifiedState, temporaryState,
                            pendingActions>>

\* the teardown of window w after its promise id has settled: the Promise.all
\* of line 429 rejects with the first rejection
TeardownAfter(w, id, ok) ==
    [teardown EXCEPT ![w] =
        IF @.pc = "resetting" /\ id \in @.awaits
        THEN IF ok THEN [@ EXCEPT !.awaits = @ \ {id}] ELSE [@ EXCEPT !.pc = "failed", !.awaits = {}]
        ELSE @]

\* handleClosing (lines 1174-1181) with the teardown() it starts (lines 418-439):
\* the stage is ENDING before teardown looks at isReady, so teardown resets no
\* override and issues no command; the progress of teardown() is followed
\* under the history "teardown"
NativeClosing(w) ==
    /\ listeners[w]
    /\ lifecycleStage' = [lifecycleStage EXCEPT ![w] = "ENDING"]
    /\ listeners' = [listeners EXCEPT ![w] = FALSE]
    /\ IF history = "teardown" /\ teardown[w].pc = "idle"
       THEN Teardown(w, "closing")
       ELSE /\ teardown' = teardown
            /\ UNCHANGED <<currentState, applicationState, modifiedState, temporaryState,
                           pendingActions>>
    /\ last' = LastPlain("closing", w)
    /\ overrideRun' = RunAfter(w, Props)
    /\ lastEvent' = NoEvent
    /\ events' = events
    /\ UNCHANGED <<rejectedActions, initialFetch, refreshing, isWin10, scope, history, trip,
                   groupVars, syncCall, transactions, snaps, regroup, handlers, dragVars>>

\* teardown() called from outside to deregister the window (lines 418-436)
Deregister(w) ==
    /\ history = "teardown"
    /\ teardown[w].pc = "idle"
    /\ listeners' = [listeners EXCEPT ![w] = FALSE]
    /\ Teardown(w, "deregister")
    /\ last' = LastPlain("teardown", w)
    /\ overrideRun' = RunAfter(w, Props)
    /\ lastEvent' = NoEvent
    /\ events' = events
    /\ UNCHANGED <<lifecycleStage, rejectedActions, initialFetch, refreshing, isWin10, scope,
                   history, trip, groupVars, syncCall, transactions, snaps, regroup, handlers,
                   dragVars>>

\* teardown() behind the await of line 429: leaveGroup() is called and not
\* awaited (line 434), then onTeardown is emitted (line 436)
TeardownResumes(w) ==
    /\ teardown[w].pc = "resetting"
    /\ teardown[w].awaits = {}
    /\ teardown' = [teardown EXCEPT ![w] = Emitted([@ EXCEPT !.left = TRUE], temporaryState[w])]
    /\ last' = LastPlain("teardownResumes", w)
    /\ UNCHANGED <<stateVars, history, overrideRun, trip, groupVars, syncCall, transactions,
                   snaps, regroup, handlers, lastEvent, events, dragVars>>

\* a subscriber of onTeardown completes, or fails and the await of line 436
\* rejects
SubscriberCompletes(w, ok) ==
    /\ teardown[w].pc = "emitted"
    /\ teardown[w].waiting > 0
    /\ teardown' = [teardown EXCEPT ![w] =
            IF ok THEN [@ EXCEPT !.waiting = @ - 1] ELSE [@ EXCEPT !.pc = "failed"]]
    /\ last' = LastPlain("subscriber", w)
    /\ UNCHANGED <<stateVars, history, overrideRun, trip, groupVars, syncCall, transactions,
                   snaps, regroup, handlers, lastEvent, events, dragVars>>

\* teardown() behind the await of line 436: onDestroyed is emitted and the
\* stage set to ENDING (lines 437-438)
TeardownEnds(w) ==
    /\ teardown[w].pc = "emitted"
    /\ teardown[w].waiting = 0
    /\ teardown' = [teardown EXCEPT ![w] = [@ EXCEPT !.pc = "done", !.signals = Append(@, "destroyed")]]
    /\ lifecycleStage' = [lifecycleStage EXCEPT ![w] = "ENDING"]
    /\ last' = LastPlain("teardownEnds", w)
    /\ UNCHANGED <<currentState, applicationState, modifiedState, temporaryState, pendingActions,
                   rejectedActions, listeners, initialFetch, refreshing, isWin10, scope, history,
                   overrideRun, trip, groupVars, syncCall, transactions, snaps, regroup, handlers,
                   lastEvent, events, dragVars>>

\* a native command resolves: onActionComplete removes it (lines 725-732)
ActionResolved(w, id) ==
    /\ id \in pendingActions[w] \ OwnedIds(w)
    /\ pendingActions' = [pendingActions EXCEPT ![w] = @ \ {id}]
    /\ syncCall' = SyncCallAfter(w, id, TRUE)
    /\ transactions' = TransactionsAfter(w, id, TRUE)
    /\ snaps' = SnapsAfter(w, id, TRUE)
    /\ handlers' = HandlersAfter(w, id, TRUE)
    /\ last' = LastPlain("actionResolved", w)
    /\ overrideRun' = RunAfter(w, {})
    /\ lastEvent' = NoEvent
    /\ events' = events
    /\ teardown' = TeardownAfter(w, id, TRUE)
    /\ UNCHANGED dragVars
    /\ UNCHANGED <<lifecycleStage, currentState, applicationState, modifiedState, temporaryState,
                   rejectedActions, listeners, initialFetch, refreshing, isWin10, scope, history,
                   trip, groupVars, regroup>>

\* a native command rejects: only a fulfilment handler was attached (lines 709,
\* 720), so the promise stays in _pendingActions
ActionRejected(w, id) ==
    /\ id \in pendingActions[w] \ {snaps[w].id}
    /\ rejectedActions[w] < MaxRejected
    /\ pendingActions' = [pendingActions EXCEPT ![w] = @ \ {id}]
    /\ rejectedActions' = [rejectedActions EXCEPT ![w] = @ + 1]
    /\ initialFetch' = [initialFetch EXCEPT ![w] = IF @ = id THEN 0 ELSE @]
    /\ syncCall' = SyncCallAfter(w, id, FALSE)
    /\ transactions' = TransactionsAfter(w, id, FALSE)
    /\ snaps' = SnapsAfter(w, id, FALSE)
    /\ handlers' = HandlersAfter(w, id, FALSE)
    /\ last' = LastPlain("actionRejected", w)
    /\ overrideRun' = RunAfter(w, {})
    /\ lastEvent' = NoEvent
    /\ events' = events
    /\ teardown' = TeardownAfter(w, id, FALSE)
    /\ UNCHANGED dragVars
    /\ UNCHANGED <<lifecycleStage, currentState, applicationState, modifiedState, temporaryState,
                   listeners, refreshing, isWin10, scope, history, trip, groupVars, regroup>>

-----------------------------------------------------------------------------
(* the window's state layers under every origin *)

\* the order in which the windows were registered
WindowOrder == <<"A", "B", "C">>

\* every window in a snap group of its own (line 397)
Singletons ==
    /\ snapGroup = [w \in Windows |-> CHOOSE g \in 1..Len(WindowOrder) : WindowOrder[g] = w]
    /\ prevGroup = [w \in Windows |-> 0]
    /\ groupWindows = [g \in GroupIds |-> IF g <= Len(WindowOrder) THEN <<WindowOrder[g]>> ELSE <<>>]

\* no asynchronous call and no drag in progress
NoCalls ==
    /\ syncCall = [w \in Windows |-> NoSync]
    /\ transactions = [t \in TxnIds |-> NoTransaction]
    /\ snaps = [w \in Windows |-> NoSnap]
    /\ regroup = [w \in Windows |-> "idle"]
    /\ handlers = [h \in HandlerIds |-> NoHandler]
    /\ lastEvent = NoEvent
    /\ events = 0
    /\ teardown = [w \in Windows |-> NoTeardown]
    /\ userInitiatedBoundsChange = [w \in Windows |-> NoBoundsChange]
    /\ moveInProgress = [w \in Windows |-> FALSE]
    /\ transform = NoTransform
    /\ native = NoNative

\* nothing in progress on displays that are not scaled
NothingInProgress ==
    /\ NoCalls
    /\ displayScaling = FALSE

\* the windows as constructed, recording the history h
InitWith(h) ==
    /\ \E withState \in [Windows -> BOOLEAN] :
          /\ \A w \in Windows \ LayerWindows : withState[w]
          /\ Constructed(withState)
    /\ isWin10 = FALSE
    /\ scope \in Scopes
    /\ history = h
    /\ last = NoLast
    /\ overrideRun = NoRuns
    /\ trip = NoTrip
    /\ Singletons
    /\ NothingInProgress

Init == InitWith("last")

Next ==
    \E w \in LayerWindows :
        \/ \E s \in InitialStates : FetchInitialState(w, s)
        \/ NativeHidden(w)
        \/ NativeShown(w)
        \/ NativeMaximized(w)
        \/ NativeMinimized(w)
        \/ NativeRestored(w)
        \/ \E c \in CenterValues, h \in HalfSizeValues : NativeBounds(w, c, h)
        \/ RefreshCall(w)
        \/ \E s \in EntityStates : RefreshResult(w, s)
        \/ \E delta \in Deltas : ApplyProperties(w, delta)
        \/ \E p \in Props, sameObject \in BOOLEAN : \E value \in Values(p) :
              ApplyOverride(w, p, value, sameObject)
        \/ \E p \in Props : ResetOverride(w, p)
        \/ Close(w)
        \/ NativeClosing(w)
        \/ \E id \in ActionIds : ActionResolved(w, id)

Spec == Init /\ [][Next]_vars

\* the same operations, recording the runs of applyOverride
InitOverride == InitWith("run")
SpecOverride == InitOverride /\ [][Next]_vars

\* teardown of a window with overrides in effect; a continuation of teardown()
\* that is ready to run runs before the next event is handled
InitTeardown == InitWith("teardown")

ContinuesTeardown ==
    \E w \in LayerWindows : TeardownResumes(w) \/ TeardownEnds(w)

StableTeardown == ~ENABLED ContinuesTeardown

NextTeardown ==
    \/ ContinuesTeardown
    \/ \E w \in LayerWindows :
          \/ \E s \in InitialStates : StableTeardown /\ FetchInitialState(w, s)
          \/ \E p \in Props, sameObject \in BOOLEAN : \E value \in Values(p) :
                StableTeardown /\ ApplyOverride(w, p, value, sameObject)
          \/ \E p \in Props : StableTeardown /\ ResetOverride(w, p)
          \/ StableTeardown /\ Close(w)
          \/ StableTeardown /\ NativeClosing(w)
          \/ StableTeardown /\ Deregister(w)
          \/ \E ok \in BOOLEAN : StableTeardown /\ SubscriberCompletes(w, ok)
          \/ \E id \in ActionIds : StableTeardown /\ ActionResolved(w, id)
          \/ \E id \in ActionIds : StableTeardown /\ ActionRejected(w, id)

SpecTeardown == InitTeardown /\ [][NextTeardown]_vars

\* refresh() among the updates of every origin, recording the state that each
\* query returned
InitRefresh == InitWith("refresh")

NextRefresh ==
    \E w \in LayerWindows :
        \/ \E s \in InitialStates : FetchInitialState(w, s)
        \/ NativeHidden(w)
        \/ NativeMaximized(w)
        \/ \E c \in CenterValues, h \in HalfSizeValues : NativeBounds(w, c, h)
        \/ RefreshCall(w)
        \/ \E s \in EntityStates : RefreshResult(w, s)
        \/ \E delta \in Deltas : ApplyProperties(w, delta)
        \/ \E p \in Props, sameObject \in BOOLEAN : \E value \in Values(p) :
              ApplyOverride(w, p, value, sameObject)
        \/ \E p \in Props : ResetOverride(w, p)
        \/ Close(w)
        \/ \E id \in ActionIds : ActionResolved(w, id)

SpecRefresh == InitRefresh /\ [][NextRefresh]_vars

\* service updates of resizeConstraints; the options sent are recorded
InitOptions ==
    /\ \E withState \in [Windows -> BOOLEAN] :
          /\ \A w \in Windows \ LayerWindows : withState[w]
          /\ Constructed(withState)
    /\ isWin10 = FALSE
    /\ scope = {"resizeConstraints"}
    /\ history = "options"
    /\ last = NoLast
    /\ overrideRun = NoRuns
    /\ trip = NoTrip
    /\ Singletons
    /\ NothingInProgress

NextOptions ==
    \E w \in LayerWindows :
        \/ \E s \in InitialStates : FetchInitialState(w, s)
        \/ \E value \in ResizeConstraintsValues :
              ApplyProperties(w, [resizeConstraints |-> value])
        \/ \E sameObject \in BOOLEAN : \E value \in ResizeConstraintsValues :
              ApplyOverride(w, "resizeConstraints", value, sameObject)
        \/ ResetOverride(w, "resizeConstraints")
        \/ Close(w)
        \/ \E id \in ActionIds : ActionResolved(w, id)

SpecOptions == InitOptions /\ [][NextOptions]_vars

\* drags of the user on a window; the samples are (100,100), (103,100), (110,100) and (100,103) for the center,
\* (50,50), (51,50), (60,50) and (50,60) for the half-size
DragCenters == CenterValues \cup {Pt(220, 200), Pt(200, 206)}
DragHalfSizes == HalfSizeValues \cup {Pt(102, 100), Pt(120, 100), Pt(100, 120)}
\* changeType of a bounds event: 0 position, 1 size, 2 both
ChangeTypes == 0..2

InitDrag ==
    /\ Constructed([w \in Windows |-> TRUE])
    /\ isWin10 = FALSE
    /\ scope = {"center", "halfSize"}
    /\ history = "drag"
    /\ last = NoLast
    /\ overrideRun = NoRuns
    /\ trip = NoTrip
    /\ Singletons
    /\ NoCalls
    /\ displayScaling \in BOOLEAN

NextDrag ==
    \E w \in LayerWindows :
        \/ \E c \in DragCenters, h \in DragHalfSizes, changeType \in ChangeTypes :
              BeginUserBoundsChanging(w, c, h, changeType)
        \/ \E c \in DragCenters, h \in DragHalfSizes, changeType \in ChangeTypes :
              BoundsChanging(w, c, h, changeType)
        \/ \E c \in DragCenters, h \in DragHalfSizes, changeType \in ChangeTypes :
              BoundsChanged(w, c, h, changeType)
        \/ NativeClosing(w)

SpecDrag == InitDrag /\ [][NextDrag]_vars

\* drags of the user while the service moves the window: the only commands are
\* the setBounds commands of applyProperties
NextCommit ==
    \E w \in LayerWindows :
        \/ \E c \in CenterValues, h \in HalfSizeValues, changeType \in ChangeTypes :
              BeginUserBoundsChanging(w, c, h, changeType)
        \/ \E c \in CenterValues, h \in HalfSizeValues, changeType \in ChangeTypes :
              BoundsChanging(w, c, h, changeType)
        \/ \E c \in CenterValues, h \in HalfSizeValues, changeType \in ChangeTypes :
              BoundsChanged(w, c, h, changeType)
        \/ \E delta \in BoundsDeltas : ApplyProperties(w, delta)
        \/ \E c \in CenterValues, h \in HalfSizeValues, changeType \in ChangeTypes :
              SetBoundsChanged(w, c, h, changeType)
        \/ \E id \in ActionIds : ActionResolved(w, id)

SpecCommit == InitDrag /\ [][NextCommit]_vars


-----------------------------------------------------------------------------
(* round trips of SERVICE updates *)

\* the states a round trip starts from: no modification, no override
TripStarts == {s \in EntityStates : s.frame}

InitRoundTrip ==
    /\ lifecycleStage = [w \in Windows |-> "READY"]
    /\ currentState \in [Windows -> TripStarts]
    /\ \A w \in Windows \ LayerWindows : currentState[w] \in InitialStates
    /\ applicationState = currentState
    /\ modifiedState = [w \in Windows |-> Empty]
    /\ temporaryState = [w \in Windows |-> Empty]
    /\ pendingActions = [w \in Windows |-> {}]
    /\ rejectedActions = [w \in Windows |-> 0]
    /\ initialFetch = [w \in Windows |-> 0]
    /\ listeners = [w \in Windows |-> TRUE]
    /\ refreshing = [w \in Windows |-> FALSE]
    /\ isWin10 = FALSE
    /\ scope \in Scopes
    /\ history = "trip"
    /\ last = NoLast
    /\ overrideRun = NoRuns
    /\ trip = [phase |-> "forward", undo |-> <<>>, n |-> 0, dirty |-> FALSE]
    /\ Singletons
    /\ NothingInProgress

\* updateState(delta, SERVICE), remembering the values it replaces
TripForward(w, delta) ==
    /\ trip.phase = "forward"
    /\ trip.n < MaxTrip
    /\ DOMAIN delta \subseteq scope
    /\ Commit(w, Update(w, delta, "SERVICE"))
    /\ trip' = [trip EXCEPT !.undo = <<[p \in DOMAIN delta |-> currentState[w][p]]>> \o @,
                            !.n = @ + 1]
    /\ UNCHANGED <<lifecycleStage, rejectedActions, listeners, initialFetch, refreshing, isWin10,
                   scope, history, last, overrideRun, groupVars, procVars>>

\* the trip turns back
TripTurn(w) ==
    /\ trip.phase = "forward"
    /\ trip' = [trip EXCEPT !.phase = "back", !.dirty = modifiedState[w] # Empty]
    /\ UNCHANGED <<stateVars, history, last, overrideRun, groupVars, procVars>>

\* updateState(inverse, SERVICE) for the latest update not yet undone
TripInverse(w) ==
    /\ trip.phase = "back"
    /\ trip.undo # <<>>
    /\ Commit(w, Update(w, Head(trip.undo), "SERVICE"))
    /\ trip' = [trip EXCEPT !.undo = Tail(@)]
    /\ UNCHANGED <<lifecycleStage, rejectedActions, listeners, initialFetch, refreshing, isWin10,
                   scope, history, last, overrideRun, groupVars, procVars>>

NextRoundTrip ==
    \E w \in LayerWindows :
        \/ \E delta \in Deltas : TripForward(w, delta)
        \/ TripTurn(w)
        \/ TripInverse(w)
        \/ \E id \in ActionIds : ActionResolved(w, id)

SpecRoundTrip == InitRoundTrip /\ [][NextRoundTrip]_vars

-----------------------------------------------------------------------------
(* the sync() barrier *)

\* bringToFront() (lines 650-652)
BringToFront(w) ==
    /\ FreeIds(w) # {}
    /\ pendingActions' = [pendingActions EXCEPT ![w] = AddPendingActions(w, 1)]
    /\ lastEvent' = NoEvent
    /\ events' = events
    /\ teardown' = teardown
    /\ UNCHANGED dragVars
    /\ UNCHANGED <<lifecycleStage, currentState, applicationState, modifiedState, temporaryState,
                   rejectedActions, listeners, initialFetch, refreshing, isWin10, scope, history,
                   last, overrideRun, trip, groupVars, syncCall, transactions, snaps, regroup, handlers>>

\* sync() is called on window w from outside (lines 605-609)
SyncCall(w) ==
    /\ syncCall[w].st = "idle"
    /\ syncCall' = [syncCall EXCEPT ![w] = StartSync(w)]
    /\ lastEvent' = NoEvent
    /\ events' = events
    /\ teardown' = teardown
    /\ UNCHANGED dragVars
    /\ UNCHANGED <<stateVars, history, last, overrideRun, trip, groupVars, transactions, snaps,
                   regroup, handlers>>

\* the Promise.all awaited at line 612 has resolved (lines 609-616)
SyncCallRound(w) ==
    /\ SyncWakes(syncCall[w])
    /\ syncCall' = [syncCall EXCEPT ![w] = SyncRound(@)]
    /\ lastEvent' = NoEvent
    /\ events' = events
    /\ teardown' = teardown
    /\ UNCHANGED dragVars
    /\ UNCHANGED <<stateVars, history, last, overrideRun, trip, groupVars, transactions, snaps,
                   regroup, handlers>>

\* the caller has the result of sync()
SyncCallReturn(w) ==
    /\ SyncSettled(syncCall[w])
    /\ syncCall' = [syncCall EXCEPT ![w] = NoSync]
    /\ lastEvent' = NoEvent
    /\ events' = events
    /\ teardown' = teardown
    /\ UNCHANGED dragVars
    /\ UNCHANGED <<stateVars, history, last, overrideRun, trip, groupVars, transactions, snaps,
                   regroup, handlers>>

\* the windows that the operations of SpecSync act on
SyncWindows == {"A"}

InitSync ==
    /\ Constructed([w \in Windows |-> TRUE])
    /\ isWin10 = FALSE
    /\ scope = {}
    /\ history = "none"
    /\ last = NoLast
    /\ overrideRun = NoRuns
    /\ trip = NoTrip
    /\ Singletons
    /\ NothingInProgress

NextSync ==
    \E w \in SyncWindows :
        \/ BringToFront(w)
        \/ SyncCall(w)
        \/ SyncCallRound(w)
        \/ SyncCallReturn(w)
        \/ \E id \in ActionIds : ActionResolved(w, id)
        \/ \E id \in ActionIds : ActionRejected(w, id)

SpecSync == InitSync /\ [][NextSync]_vars

-----------------------------------------------------------------------------
(* snap groups *)

InSeq(seq, w) == \E i \in 1..Len(seq) : seq[i] = w
SeqWithout(seq, w) == SelectSeq(seq, LAMBDA x : x # w)

\* the snap groups as one value: snap is _snapGroup, prev is _prevGroup of each
\* window, wins the member list of each group
Groups == [snap |-> snapGroup, prev |-> prevGroup, wins |-> groupWindows]

\* the members of group g
Members(G, g) == {G.wins[g][i] : i \in 1..Len(G.wins[g])}

\* DesktopSnapGroup.addWindow(w) on group g, w coming from group from: w leaves
\* the member list of from and is appended to that of g
AddWindow(wins, g, w, from) ==
    [h \in GroupIds |->
        IF h = g THEN (IF InSeq(wins[h], w) THEN wins[h] ELSE Append(wins[h], w))
        ELSE IF h = from THEN SeqWithout(wins[h], w)
        ELSE wins[h]]

\* addToSnapGroup(group) on window w (lines 837-841)
AddToSnapGroup_KeepsPrev(G, w, g) ==
    [snap |-> [G.snap EXCEPT ![w] = g],
     prev |-> G.prev,
     wins |-> AddWindow(G.wins, g, w, G.snap[w])]
AddToSnapGroup(G, w, g) ==
    [snap |-> [G.snap EXCEPT ![w] = g],
     prev |-> [G.prev EXCEPT ![w] = G.snap[w]],
     wins |-> AddWindow(G.wins, g, w, G.snap[w])]

\* new DesktopSnapGroup() (line 1226): an object that nothing refers to yet
FreeGroups ==
    {g \in GroupIds :
        /\ groupWindows[g] = <<>>
        /\ \A w \in Windows : snapGroup[w] # g /\ prevGroup[w] # g /\ snaps[w].group # g}
NewGroup == CHOOSE g \in FreeGroups : \A h \in FreeGroups : g <= h

-----------------------------------------------------------------------------
(* Debounced *)

\* the ticks of the clock that the debounce delay lasts
DebounceDelay == 2

\* Debounced.call(): the callback is scheduled one delay from now
DebounceCall(timer) == DebounceDelay

\* Debounced.postpone(): a scheduled callback is moved one delay from now
DebouncePostpone(timer) == IF timer >= 0 THEN DebounceDelay ELSE timer

-----------------------------------------------------------------------------
(* snap() and unsnap() *)

\* unsnap() (lines 828-835): leaveGroup() is issued on a READY window only
Unsnap(w) == IF IsReady(w) THEN "leaving" ELSE "resolved"

\* the snap() sn has settled: a transaction that awaits it sees the outcome
Settled(sn, outcome) ==
    IF sn.owner = 0 THEN NoSnap
    ELSE [sn EXCEPT !.st = outcome, !.id = 0, !.syncThis = NoSync, !.syncOther = NoSync]

\* snap() up to the Promise.all of line 772 (lines 762-772, 810-814), called by
\* owner with the snap groups G
StartSnap_ReadyOrNot(G, w, owner) ==
    LET windows == G.wins[G.snap[w]]
        count == Len(windows)
        index == IF InSeq(windows, w) THEN CHOOSE i \in 1..count : windows[i] = w ELSE 0
    IN  IF count >= 2 /\ index >= 1
        THEN LET other == windows[IF index = 1 THEN 2 ELSE 1]
             IN  [st |-> "syncing", owner |-> owner, group |-> G.snap[w], other |-> other,
                  syncThis |-> StartSync(w), syncOther |-> StartSync(other),
                  id |-> 0, target |-> "none"]
        ELSE Settled([NoSnap EXCEPT !.owner = owner], "rejected")
\* a snap() that cannot start resolves
StartSnap_Resolves(G, w, owner) ==
    LET windows == G.wins[G.snap[w]]
        count == Len(windows)
        index == IF InSeq(windows, w) THEN CHOOSE i \in 1..count : windows[i] = w ELSE 0
    IN  IF count >= 2 /\ index >= 1 /\ IsReady(w)
        THEN LET other == windows[IF index = 1 THEN 2 ELSE 1]
             IN  [st |-> "syncing", owner |-> owner, group |-> G.snap[w], other |-> other,
                  syncThis |-> StartSync(w), syncOther |-> StartSync(other),
                  id |-> 0, target |-> "none"]
        ELSE Settled([NoSnap EXCEPT !.owner = owner], "resolved")
StartSnap(G, w, owner) ==
    LET windows == G.wins[G.snap[w]]
        count == Len(windows)
        index == IF InSeq(windows, w) THEN CHOOSE i \in 1..count : windows[i] = w ELSE 0
    IN  IF count >= 2 /\ index >= 1 /\ IsReady(w)
        THEN LET other == windows[IF index = 1 THEN 2 ELSE 1]
             IN  [st |-> "syncing", owner |-> owner, group |-> G.snap[w], other |-> other,
                  syncThis |-> StartSync(w), syncOther |-> StartSync(other),
                  id |-> 0, target |-> "none"]
        ELSE Settled([NoSnap EXCEPT !.owner = owner], "rejected")

\* a merge with the first candidate whatever its stage
MergeTarget_Other(w, group, other) == other

\* the target of the merge (lines 780-785): other if it is READY, else the first
\* READY member of the group that is not the window itself, "none" if there is none
MergeTarget(w, group, other) ==
    LET windows == groupWindows[group]
        found == {i \in 1..Len(windows) : IsReady(windows[i]) /\ windows[i] # w}
    IN  IF IsReady(other) THEN other
        ELSE IF found = {} THEN "none"
        ELSE windows[CHOOSE i \in found : \A j \in found : i <= j]

\* the two sync() of line 772 go on (lines 609-616)
SnapSyncRound(w) ==
    /\ snaps[w].st = "syncing"
    /\ \/ /\ SyncWakes(snaps[w].syncThis)
          /\ snaps' = [snaps EXCEPT ![w].syncThis = SyncRound(@)]
       \/ /\ SyncWakes(snaps[w].syncOther)
          /\ snaps' = [snaps EXCEPT ![w].syncOther = SyncRound(@)]
    /\ lastEvent' = NoEvent
    /\ events' = events
    /\ teardown' = teardown
    /\ UNCHANGED dragVars
    /\ UNCHANGED <<stateVars, histVars, groupVars, syncCall, transactions, regroup, handlers>>

\* one of the two sync() has rejected: so does the Promise.all of line 772
SnapSyncFailed(w) ==
    /\ snaps[w].st = "syncing"
    /\ SyncRejected(snaps[w].syncThis) \/ SyncRejected(snaps[w].syncOther)
    /\ snaps' = [snaps EXCEPT ![w] = Settled(@, "rejected")]
    /\ lastEvent' = NoEvent
    /\ events' = events
    /\ teardown' = teardown
    /\ UNCHANGED dragVars
    /\ UNCHANGED <<stateVars, histVars, groupVars, syncCall, transactions, regroup, handlers>>

\* both sync() have resolved and joinGroupPromise issues mergeGroups (lines
\* 772-791); the promise becomes a pending action of the window (line 808)
SnapMerges(w) ==
    LET sn == snaps[w]
        target == MergeTarget(w, sn.group, sn.other)
    IN  /\ sn.st = "syncing"
        /\ sn.syncThis.st = "resolved" /\ sn.syncOther.st = "resolved"
        /\ IsReady(w) /\ sn.group = snapGroup[w] /\ target # "none"
        /\ FreeIds(w) # {}
        /\ pendingActions' = [pendingActions EXCEPT ![w] = AddPendingActions(w, 1)]
        /\ snaps' = [snaps EXCEPT ![w] = [sn EXCEPT !.st = "merging", !.target = target,
                                                    !.id = CHOOSE i \in NewIds(w, 1) : TRUE,
                                                    !.syncThis = NoSync, !.syncOther = NoSync]]
        /\ transactions' = [t \in TxnIds |->
                               IF t = sn.owner THEN [transactions[t] EXCEPT !.merged = @ \cup {w}]
                               ELSE transactions[t]]
        /\ lastEvent' = NoEvent
        /\ events' = events
        /\ teardown' = teardown
        /\ UNCHANGED dragVars
        /\ UNCHANGED <<lifecycleStage, currentState, applicationState, modifiedState,
                       temporaryState, rejectedActions, listeners, initialFetch, refreshing,
                       isWin10, scope, histVars, groupVars, syncCall, regroup, handlers>>

\* both sync() have resolved and joinGroupPromise ends without a command: the
\* window is not READY, its group has changed, or no member is READY (lines
\* 774-790)
SnapSkipsMerge(w) ==
    LET sn == snaps[w]
    IN  /\ sn.st = "syncing"
        /\ sn.syncThis.st = "resolved" /\ sn.syncOther.st = "resolved"
        /\ ~(IsReady(w) /\ sn.group = snapGroup[w] /\ MergeTarget(w, sn.group, sn.other) # "none")
        /\ snaps' = [snaps EXCEPT ![w] = Settled(sn, "resolved")]
        /\ lastEvent' = NoEvent
        /\ events' = events
        /\ teardown' = teardown
        /\ UNCHANGED dragVars
        /\ UNCHANGED <<stateVars, histVars, groupVars, syncCall, transactions, regroup, handlers>>

\* the errors of mergeGroups: the window could not be located, or another error
MergeErrors == {"gone", "other"}

\* checkClose(error) (lines 817-826), "none" standing for mergeGroups having
\* resolved: ending whether the stage is set to ENDING, thrown whether the
\* error is thrown again
CheckClose_Rethrows(error) == [ending |-> FALSE, thrown |-> error # "none"]
CheckClose(error) == [ending |-> error = "gone", thrown |-> error = "other"]

\* the outcome of mergeGroups as the last step saw it
MergeOutcome(error) ==
    IF error = "none" THEN NoEvent
    ELSE [NoEvent EXCEPT !.op = IF error = "gone" THEN "mergeGone" ELSE "mergeError"]

\* mergeGroups has resolved, or has failed with an error that checkClose
\* swallows (lines 817-826): the READY members are brought to front and
\* joinGroupPromise resolves (lines 791-805, 725-732)
MergeResolved(w, gone) ==
    LET id == snaps[w].id
        error == IF gone THEN "gone" ELSE "none"
    IN  /\ snaps[w].st = "merging"
        /\ ~CheckClose(error).thrown
        /\ lifecycleStage' = IF CheckClose(error).ending
                              THEN [lifecycleStage EXCEPT ![w] = "ENDING"]
                              ELSE lifecycleStage
        /\ pendingActions' = [pendingActions EXCEPT ![w] = @ \ {id}]
        /\ syncCall' = SyncCallAfter(w, id, TRUE)
        /\ transactions' = TransactionsAfter(w, id, TRUE)
        /\ handlers' = HandlersAfter(w, id, TRUE)
        /\ snaps' = [SnapsAfter(w, id, TRUE) EXCEPT ![w] = Settled(@, "resolved")]
        /\ lastEvent' = MergeOutcome(error)
        /\ events' = events
        /\ teardown' = teardown
        /\ UNCHANGED dragVars
        /\ UNCHANGED <<currentState, applicationState, modifiedState, temporaryState,
                       rejectedActions, listeners, initialFetch, refreshing, isWin10, scope,
                       histVars, groupVars, regroup>>

\* mergeGroups has failed with an error that checkClose throws again:
\* joinGroupPromise rejects (lines 791, 817-826); the promise stays in
\* _pendingActions (lines 720-721)
MergeRejected(w, error) ==
    LET id == snaps[w].id
    IN  /\ snaps[w].st = "merging"
        /\ CheckClose(error).thrown
        /\ rejectedActions[w] < MaxRejected
        /\ pendingActions' = [pendingActions EXCEPT ![w] = @ \ {id}]
        /\ rejectedActions' = [rejectedActions EXCEPT ![w] = @ + 1]
        /\ syncCall' = SyncCallAfter(w, id, FALSE)
        /\ transactions' = TransactionsAfter(w, id, FALSE)
        /\ handlers' = HandlersAfter(w, id, FALSE)
        /\ snaps' = [SnapsAfter(w, id, FALSE) EXCEPT ![w] = Settled(@, "rejected")]
        /\ lastEvent' = MergeOutcome(error)
        /\ events' = events
        /\ teardown' = teardown
        /\ UNCHANGED dragVars
        /\ UNCHANGED <<lifecycleStage, currentState, applicationState, modifiedState,
                       temporaryState, listeners, initialFetch, refreshing, isWin10, scope,
                       histVars, groupVars, regroup>>

-----------------------------------------------------------------------------
(* transaction() *)

\* the finally block (lines 245-249): the removal of the record is left to the
\* debounced callback
Finally(rec) == [rec EXCEPT !.timer = DebounceCall(@)]

\* Promise.all (lines 239, 240, 243): resolved once every promise has resolved
PromiseAll_Any(results, ok) == \E w \in DOMAIN results : results[w] = ok
PromiseAll(results, ok) == \A w \in DOMAIN results : results[w] = ok

\* the call leaves the try block, step being the step that failed ("none" when
\* every step succeeded): the error of the step is thrown again to the caller
\* behind the finally block (lines 238-249)
Left(rec, step) ==
    [rec EXCEPT !.pc = "done", !.failed = step, !.quiet = 0,
                !.sync = [w \in Windows |-> NoSync],
                !.unsnap = [w \in Windows |-> "none"],
                !.result = IF step = "none" THEN "resolved" ELSE "rejected"]
Leaves_OutsideFinally(rec, step) ==
    IF step = "none" THEN Finally(Left(rec, step)) ELSE Left(rec, step)
Leaves(rec, step) == Finally(Left(rec, step))

\* transaction(ws, transform) is called: the record is pushed and sync() is
\* called on every window (lines 225-239)
TxnStart(t, ws) ==
    /\ transactions[t].pc = "idle"
    /\ \A w \in Windows : snaps[w].owner # t
    /\ ws # {}
    /\ transactions' = [transactions EXCEPT ![t] =
            [NoTransaction EXCEPT !.pc = "sync", !.windows = ws, !.listed = TRUE,
                                  !.sync = [w \in Windows |-> IF w \in ws THEN StartSync(w)
                                                              ELSE NoSync]]]
    /\ lastEvent' = NoEvent
    /\ events' = events
    /\ teardown' = teardown
    /\ UNCHANGED dragVars
    /\ UNCHANGED <<stateVars, histVars, groupVars, syncCall, snaps, regroup, handlers>>

\* a sync() of the first step goes on (lines 609-616)
TxnSyncRound(t, w) ==
    /\ transactions[t].pc = "sync"
    /\ SyncWakes(transactions[t].sync[w])
    /\ transactions' = [transactions EXCEPT ![t].sync[w] = SyncRound(@)]
    /\ lastEvent' = NoEvent
    /\ events' = events
    /\ teardown' = teardown
    /\ UNCHANGED dragVars
    /\ UNCHANGED <<stateVars, histVars, groupVars, syncCall, snaps, regroup, handlers>>

\* every sync() has resolved: unsnap() is called on every window (lines 239-240)
TxnSynced(t) ==
    LET rec == transactions[t]
    IN  /\ rec.pc = "sync"
        /\ PromiseAll([w \in rec.windows |-> rec.sync[w].st], "resolved")
        /\ transactions' = [transactions EXCEPT ![t] =
                [rec EXCEPT !.pc = "unsnap", !.sync = [w \in Windows |-> NoSync],
                            !.unsnap = [w \in Windows |-> IF w \in rec.windows THEN Unsnap(w)
                                                          ELSE "none"]]]
        /\ lastEvent' = NoEvent
        /\ events' = events
        /\ teardown' = teardown
        /\ UNCHANGED dragVars
        /\ UNCHANGED <<stateVars, histVars, groupVars, syncCall, snaps, regroup, handlers>>

\* a sync() has rejected (lines 239, 245-249)
TxnSyncFailed(t) ==
    LET rec == transactions[t]
    IN  /\ rec.pc = "sync"
        /\ \E w \in rec.windows : SyncRejected(rec.sync[w])
        /\ transactions' = [transactions EXCEPT ![t] =
                Leaves(rec, "sync")]
        /\ lastEvent' = NoEvent
        /\ events' = events
        /\ teardown' = teardown
        /\ UNCHANGED dragVars
        /\ UNCHANGED <<stateVars, histVars, groupVars, syncCall, snaps, regroup, handlers>>

\* the leaveGroup() of a window of the transaction settles (line 831)
LeaveGroupSettles(t, w, ok) ==
    /\ transactions[t].pc = "unsnap"
    /\ transactions[t].unsnap[w] = "leaving"
    /\ transactions' = [transactions EXCEPT ![t].unsnap[w] = IF ok THEN "resolved" ELSE "rejected"]
    /\ lastEvent' = NoEvent
    /\ events' = events
    /\ teardown' = teardown
    /\ UNCHANGED dragVars
    /\ UNCHANGED <<stateVars, histVars, groupVars, syncCall, snaps, regroup, handlers>>

\* every unsnap() has resolved: transform is invoked (lines 240-242)
TxnUnsnapped(t) ==
    LET rec == transactions[t]
    IN  /\ rec.pc = "unsnap"
        /\ PromiseAll([w \in rec.windows |-> rec.unsnap[w]], "resolved")
        /\ transactions' = [transactions EXCEPT ![t] =
                [rec EXCEPT !.pc = "transform", !.unsnap = [w \in Windows |-> "none"]]]
        /\ lastEvent' = NoEvent
        /\ events' = events
        /\ teardown' = teardown
        /\ UNCHANGED dragVars
        /\ UNCHANGED <<stateVars, histVars, groupVars, syncCall, snaps, regroup, handlers>>

\* an unsnap() has rejected (lines 240, 245-249)
TxnUnsnapFailed(t) ==
    LET rec == transactions[t]
    IN  /\ rec.pc = "unsnap"
        /\ \E w \in rec.windows : rec.unsnap[w] = "rejected"
        /\ transactions' = [transactions EXCEPT ![t] = Leaves(rec, "unsnap")]
        /\ lastEvent' = NoEvent
        /\ events' = events
        /\ teardown' = teardown
        /\ UNCHANGED dragVars
        /\ UNCHANGED <<stateVars, histVars, groupVars, syncCall, snaps, regroup, handlers>>

\* transform has resolved: snap() is called on every window (lines 242-243)
TransformResolved(t) ==
    LET rec == transactions[t]
    IN  /\ rec.pc = "transform"
        /\ \A w \in rec.windows : snaps[w].st = "idle"
        /\ transactions' = [transactions EXCEPT ![t] =
                [rec EXCEPT !.pc = "snap"]]
        /\ snaps' = [w \in Windows |-> IF w \in rec.windows THEN StartSnap(Groups, w, t)
                                        ELSE snaps[w]]
        /\ lastEvent' = NoEvent
        /\ events' = events
        /\ teardown' = teardown
        /\ UNCHANGED dragVars
        /\ UNCHANGED <<stateVars, histVars, groupVars, syncCall, regroup, handlers>>

\* transform has thrown or rejected: no snap() is called (lines 242, 245-249)
TransformRejected(t) ==
    LET rec == transactions[t]
    IN  /\ rec.pc = "transform"
        /\ transactions' = [transactions EXCEPT ![t] =
                Leaves(rec, "transform")]
        /\ lastEvent' = NoEvent
        /\ events' = events
        /\ teardown' = teardown
        /\ UNCHANGED dragVars
        /\ UNCHANGED <<stateVars, histVars, groupVars, syncCall, snaps, regroup, handlers>>

\* every snap() has resolved (lines 243-249)
TxnSnapped(t) ==
    LET rec == transactions[t]
    IN  /\ rec.pc = "snap"
        /\ \A w \in rec.windows : snaps[w].owner = t
        /\ PromiseAll([w \in rec.windows |-> snaps[w].st], "resolved")
        /\ transactions' = [transactions EXCEPT ![t] = Leaves(rec, "none")]
        /\ snaps' = [w \in Windows |-> IF w \in rec.windows THEN NoSnap ELSE snaps[w]]
        /\ lastEvent' = NoEvent
        /\ events' = events
        /\ teardown' = teardown
        /\ UNCHANGED dragVars
        /\ UNCHANGED <<stateVars, histVars, groupVars, syncCall, regroup, handlers>>

\* a snap() has rejected: the call ends while the other snap() go on (lines
\* 243-249)
TxnSnapFailed(t) ==
    LET rec == transactions[t]
    IN  /\ rec.pc = "snap"
        /\ \E w \in rec.windows : snaps[w].owner = t /\ snaps[w].st = "rejected"
        /\ transactions' = [transactions EXCEPT ![t] = Leaves(rec, "snap")]
        /\ snaps' = [w \in Windows |->
                        IF snaps[w].owner # t THEN snaps[w]
                        ELSE IF snaps[w].st \in {"resolved", "rejected"} THEN NoSnap
                        ELSE [snaps[w] EXCEPT !.owner = 0]]
        /\ lastEvent' = NoEvent
        /\ events' = events
        /\ teardown' = teardown
        /\ UNCHANGED dragVars
        /\ UNCHANGED <<stateVars, histVars, groupVars, syncCall, regroup, handlers>>

\* the clock ticks: every scheduled callback comes one tick nearer
Tick ==
    /\ \E t \in TxnIds : transactions[t].timer > 0
    /\ transactions' = [t \in TxnIds |->
            [transactions[t] EXCEPT !.timer = IF @ > 0 THEN @ - 1 ELSE @,
                                    !.quiet = IF transactions[t].pc # "idle" /\ @ < DebounceDelay
                                              THEN @ + 1 ELSE @]]
    /\ lastEvent' = NoEvent
    /\ events' = events
    /\ teardown' = teardown
    /\ UNCHANGED dragVars
    /\ UNCHANGED <<stateVars, histVars, groupVars, syncCall, snaps, regroup, handlers>>

\* the debounced callback of the record runs (lines 228-233)
DebounceFires(t) ==
    /\ transactions[t].timer = 0
    /\ transactions' = [transactions EXCEPT ![t] = NoTransaction]
    /\ lastEvent' = NoEvent
    /\ events' = events
    /\ teardown' = teardown
    /\ UNCHANGED dragVars
    /\ UNCHANGED <<stateVars, histVars, groupVars, syncCall, snaps, regroup, handlers>>

-----------------------------------------------------------------------------
(* setSnapGroup() *)

\* setSnapGroup(g) on window m up to its first await (lines 539-555), within
\* a handler whose effects so far are S: G the snap groups, re and sn the
\* setSnapGroup() and snap() in progress, cmds the native commands issued, ok
\* whether every call found room among the calls in progress
SetSnapGroup(S, m, g) ==
    IF g = S.G.snap[m] THEN S
    ELSE LET wasSnapped == Len(S.G.wins[S.G.snap[m]]) > 1
             G2 == AddToSnapGroup(S.G, m, g)
         IN  IF wasSnapped
             THEN [S EXCEPT !.G = G2,
                            !.re[m] = IF IsReady(m) THEN "leaving" ELSE "left",
                            !.cmds = IF IsReady(m) THEN @ + 1 ELSE @,
                            !.ok = @ /\ S.re[m] = "idle"]
             ELSE IF Len(G2.wins[g]) > 1
             THEN [S EXCEPT !.G = G2,
                            !.sn[m] = StartSnap(G2, m, 0),
                            !.ok = @ /\ S.sn[m].st = "idle"]
             ELSE [S EXCEPT !.G = G2]

\* the effects of a handler that has done nothing yet
NoEffects == [G |-> Groups, re |-> regroup, sn |-> snaps, cmds |-> 0, ok |-> TRUE]

\* window.setSnapGroup(g) for each of the windows ms in turn (lines 1239-1242):
\* ms is the list that `this._snapGroup.windows` returned before the first call
SetSnapGroups_FirstOnly(S, ms, g) ==
    IF ms = <<>> THEN S ELSE SetSnapGroup(S, Head(ms), g)
RECURSIVE SetSnapGroups(_, _, _)
SetSnapGroups(S, ms, g) ==
    IF ms = <<>> THEN S ELSE SetSnapGroups(SetSnapGroup(S, Head(ms), g), Tail(ms), g)

\* the unsnap() of setSnapGroup has resolved: snap() is called if the group of
\* the window has other members (lines 547-555)
SetSnapGroupContinues(w, unsnap) ==
    LET snapped == Len(groupWindows[snapGroup[w]]) > 1
    IN  /\ regroup[w] = unsnap
        /\ snapped => snaps[w].st = "idle"
        /\ regroup' = [regroup EXCEPT ![w] = "idle"]
        /\ snaps' = IF snapped THEN [snaps EXCEPT ![w] = StartSnap(Groups, w, 0)] ELSE snaps
        /\ lastEvent' = NoEvent
        /\ events' = events
        /\ teardown' = teardown
        /\ UNCHANGED dragVars
        /\ UNCHANGED <<stateVars, histVars, groupVars, syncCall, transactions, handlers>>

\* the leaveGroup() of setSnapGroup has rejected, and setSnapGroup with it
\* (lines 547-549)
SetSnapGroupFails(w) ==
    /\ regroup[w] = "leaving"
    /\ regroup' = [regroup EXCEPT ![w] = "idle"]
    /\ lastEvent' = NoEvent
    /\ events' = events
    /\ teardown' = teardown
    /\ UNCHANGED dragVars
    /\ UNCHANGED <<stateVars, histVars, groupVars, syncCall, transactions, snaps, handlers>>

-----------------------------------------------------------------------------
(* handleGroupChanged *)

\* the reasons of a group-changed event (lines 1222-1251)
Reasons == {"leave", "join", "merge", "disband"}

\* the reasons of the events that a window's leaving its group raises
LeavingReasons == {"leave", "disband"}

\* the target window of an event: a window of the model, or one it does not know
Targets == Windows \cup {"none"}
\* the same for the events of the two snapped windows
PairTargets == PairWindows \cup {"none"}

\* the lists of identities that an event of window w carries: the sourceGroup
\* of a leave event does not name w, the targetGroup of a join event does
EventGroups(w, reason) ==
    IF reason = "leave" THEN SUBSET (Windows \ {w})
    ELSE IF reason = "join" THEN {g \in SUBSET Windows : w \in g}
    ELSE {{}}

\* `t.remove.postpone()` for a relevant transaction (lines 1214-1216)
PostponeRemoval_Dropped(timer) == timer
PostponeRemoval(timer) == DebouncePostpone(timer)

\* relevantTransactions (lines 1210-1211): the records that hold the target window
RelevantTransactions(target) ==
    {t \in TxnIds : transactions[t].listed /\ target \in transactions[t].windows}

\* an active transaction holds the window the event was delivered to, which is
\* its source window, or its target window
Concerned(w, target) ==
    \E t \in TxnIds : transactions[t].listed /\ {w, target} \cap transactions[t].windows # {}

\* compareSnapAndEventWindowArrays (lines 1254-1260): both lists hold the same
\* identities once sorted
CompareSnapAndEventWindowArrays_Always(snapWindows, eventWindows) == TRUE
CompareSnapAndEventWindowArrays(snapWindows, eventWindows) ==
    {snapWindows[i] : i \in 1..Len(snapWindows)} = eventWindows

\* what the last step did with the event ev; the event itself is kept where the
\* history records events
Handled(ev, op, changed, cmds) ==
    LET outcome == [op |-> op, own |-> ev.source = ev.w,
                    concerned |-> Concerned(ev.w, ev.target), changed |-> changed, cmds |-> cmds]
    IN  IF history = "event"
        THEN outcome @@ [w |-> ev.w, reason |-> ev.reason, target |-> ev.target, group |-> ev.group]
        ELSE outcome

\* the event ev is ignored for the transactions that hold its target window,
\* and their removal is postponed (lines 1205-1218); hs are the handlers in
\* progress afterwards
Suppressed(ev, hs) ==
    LET relevant == RelevantTransactions(ev.target)
    IN  /\ relevant # {}
        /\ transactions' = [t \in TxnIds |->
                IF t \in relevant
                THEN [transactions[t] EXCEPT !.timer = PostponeRemoval(@), !.quiet = 0]
                ELSE transactions[t]]
        /\ handlers' = hs
        /\ lastEvent' = [Handled(ev, "suppressed", FALSE, 0) EXCEPT !.concerned = TRUE]
        /\ UNCHANGED <<stateVars, histVars, groupVars, syncCall, snaps, regroup>>

\* the handler of the event ev ends with the effects S (lines 1220-1252)
Processed(ev, S, hs) ==
    /\ RelevantTransactions(ev.target) = {}
    /\ S.ok
    /\ snapGroup' = S.G.snap
    /\ prevGroup' = S.G.prev
    /\ groupWindows' = S.G.wins
    /\ regroup' = S.re
    /\ snaps' = S.sn
    /\ handlers' = hs
    /\ lastEvent' = Handled(ev, ev.reason, S.G.snap # snapGroup \/ S.G.prev # prevGroup, S.cmds)
    /\ UNCHANGED <<stateVars, histVars, syncCall, transactions>>

\* 'leave' (lines 1222-1230): the window goes to a new group of its own when
\* its group is the source group of the event plus the window itself
Leave(ev, hs) ==
    /\ ev.reason = "leave"
    /\ FreeGroups # {}
    /\ Processed(ev,
          IF /\ Len(groupWindows[snapGroup[ev.w]]) > 1
             /\ CompareSnapAndEventWindowArrays(groupWindows[snapGroup[ev.w]],
                                                ev.group \cup {ev.w})
          THEN SetSnapGroup(NoEffects, ev.w, NewGroup)
          ELSE NoEffects, hs)

\* 'join' (lines 1231-1235): the window is added to the group of the target
\* window unless its group is the target group of the event already
Join(ev, hs) ==
    /\ ev.reason = "join"
    /\ Processed(ev,
          IF /\ ev.target \in Windows
             /\ ~CompareSnapAndEventWindowArrays(groupWindows[snapGroup[ev.w]], ev.group)
          THEN [NoEffects EXCEPT !.G = AddToSnapGroup(Groups, ev.w, snapGroup[ev.target])]
          ELSE NoEffects, hs)

\* 'merge' (lines 1237-1244): every window of the group of the window is moved
\* to the group of the target window
Merge(ev, hs) ==
    /\ ev.reason = "merge"
    /\ Processed(ev,
          IF ev.target \in Windows
          THEN SetSnapGroups(NoEffects, groupWindows[snapGroup[ev.w]], snapGroup[ev.target])
          ELSE NoEffects, hs)

\* 'disband' (lines 1245-1247)
Disband(ev, hs) ==
    /\ ev.reason = "disband"
    /\ Processed(ev, NoEffects, hs)

\* handleGroupChanged behind its sync() (lines 1205-1252)
Handle(ev, hs) ==
    \/ Suppressed(ev, hs)
    \/ Leave(ev, hs)
    \/ Join(ev, hs)
    \/ Merge(ev, hs)
    \/ Disband(ev, hs)

\* the events delivered after one more, where the history counts them
Delivered == IF history = "event" THEN events + 1 ELSE events

\* the test of line 1199: the event delivered to window w names another window
\* as its source window
NotTheSource_Never(w, source) == FALSE
NotTheSource(w, source) == source # w

\* a group-changed event whose source window is another window is delivered to
\* window w (lines 1196-1201)
GroupChangedElsewhere(w, source) ==
    /\ listeners[w]
    /\ NotTheSource(w, source)
    /\ lastEvent' = [op |-> "ignored", own |-> FALSE, concerned |-> FALSE, changed |-> FALSE,
                     cmds |-> 0]
    /\ events' = Delivered
    /\ teardown' = teardown
    /\ UNCHANGED dragVars
    /\ UNCHANGED <<stateVars, histVars, groupVars, syncCall, transactions, snaps, regroup,
                   handlers>>

\* a group-changed event that passes the test of line 1199 is delivered to w,
\* which has no pending action: sync() resolves without waiting and the handler
\* runs to its end (lines 1196-1252); group is the sourceGroup of a leave event
\* and the targetGroup of a join event
GroupChanged(w, source, reason, target, group) ==
    /\ listeners[w]
    /\ ~NotTheSource(w, source)
    /\ group \in EventGroups(source, reason)
    /\ StartSync(w).st = "resolved"
    /\ Handle([w |-> w, source |-> source, reason |-> reason, target |-> target,
               group |-> group], handlers)
    /\ events' = Delivered
    /\ teardown' = teardown
    /\ UNCHANGED dragVars

\* the same on a window that has pending actions: the handler waits in sync()
\* (lines 1196-1203)
GroupChangedWaits(h, w, source, reason, target, group) ==
    /\ listeners[w]
    /\ ~NotTheSource(w, source)
    /\ group \in EventGroups(source, reason)
    /\ StartSync(w).st # "resolved"
    /\ handlers[h].st = "idle"
    /\ handlers' = [handlers EXCEPT ![h] =
            [st |-> "syncing", w |-> w, source |-> source, reason |-> reason,
             target |-> target, group |-> group, sync |-> StartSync(w)]]
    /\ lastEvent' = NoEvent
    /\ events' = Delivered
    /\ teardown' = teardown
    /\ UNCHANGED dragVars
    /\ UNCHANGED <<stateVars, histVars, groupVars, syncCall, transactions, snaps, regroup>>

\* the sync() of the handler goes on (lines 609-616)
HandlerSyncRound(h) ==
    /\ SyncWakes(handlers[h].sync)
    /\ handlers' = [handlers EXCEPT ![h].sync = SyncRound(@)]
    /\ lastEvent' = NoEvent
    /\ events' = events
    /\ teardown' = teardown
    /\ UNCHANGED dragVars
    /\ UNCHANGED <<stateVars, histVars, groupVars, syncCall, transactions, snaps, regroup>>

\* the sync() of the handler has rejected, and the handler with it (line 1203)
HandlerSyncFailed(h) ==
    /\ SyncRejected(handlers[h].sync)
    /\ handlers' = [handlers EXCEPT ![h] = NoHandler]
    /\ lastEvent' = NoEvent
    /\ events' = events
    /\ teardown' = teardown
    /\ UNCHANGED dragVars
    /\ UNCHANGED <<stateVars, histVars, groupVars, syncCall, transactions, snaps, regroup>>

\* the sync() of the handler has resolved: the handler runs to its end (lines
\* 1203-1252)
GroupChangedResumes(h) ==
    /\ handlers[h].st = "syncing"
    /\ handlers[h].sync.st = "resolved"
    /\ Handle(handlers[h], [handlers EXCEPT ![h] = NoHandler])
    /\ events' = events
    /\ teardown' = teardown
    /\ UNCHANGED dragVars

-----------------------------------------------------------------------------
(* transactions and group-changed events *)

\* A and B snapped to each other, B having joined the group of A, and C in the
\* group it was constructed with
Snapped ==
    /\ snapGroup = [w \in Windows |-> IF w \in PairWindows THEN 1 ELSE 3]
    /\ prevGroup = [w \in Windows |-> IF w = "B" THEN 2 ELSE 0]
    /\ groupWindows = [g \in GroupIds |-> IF g = 1 THEN <<"A", "B">>
                                         ELSE IF g = 3 THEN <<"C">> ELSE <<>>]

\* the windows that are sent commands from outside, and those that close
CommandedWindows == {"A"}
ClosingWindows == {"B"}

\* no pending action and no sync() in progress on window w
Quiescent(w) == PendingLength(w) = 0 /\ \A c \in Syncs : c.w # w

InitTxn ==
    /\ Constructed([w \in Windows |-> TRUE])
    /\ isWin10 = FALSE
    /\ scope = {}
    /\ history = "none"
    /\ last = NoLast
    /\ overrideRun = NoRuns
    /\ trip = NoTrip
    /\ Snapped
    /\ NothingInProgress

\* the steps that continue a call whose awaited promise has settled: they run
\* before the next event, timer or native result is handled
Continues ==
    \/ \E t \in TxnIds :
          \/ \E w \in PairWindows : TxnSyncRound(t, w)
          \/ TxnSynced(t)
          \/ TxnSyncFailed(t)
          \/ TxnUnsnapped(t)
          \/ TxnUnsnapFailed(t)
          \/ TxnSnapped(t)
          \/ TxnSnapFailed(t)
    \/ \E w \in PairWindows :
          \/ SnapSyncRound(w)
          \/ SnapSyncFailed(w)
          \/ SnapMerges(w)
          \/ SnapSkipsMerge(w)
          \/ SetSnapGroupContinues(w, "left")
    \/ \E h \in HandlerIds :
          \/ HandlerSyncRound(h)
          \/ HandlerSyncFailed(h)
          \/ GroupChangedResumes(h)

\* no call can continue: the next event, timer or native result is handled
Stable == ~ENABLED Continues

NextTxn ==
    \/ Continues
    \/ \E t \in TxnIds :
          \/ Stable /\ t <= MaxTxn /\ \E ws \in SUBSET PairWindows : TxnStart(t, ws)
          \/ Stable /\ \E w \in PairWindows, ok \in BOOLEAN : LeaveGroupSettles(t, w, ok)
          \/ Stable /\ TransformResolved(t)
          \/ Stable /\ TransformRejected(t)
          \/ Stable /\ DebounceFires(t)
    \/ Stable /\ Tick
    \/ \E w \in PairWindows :
          \/ Stable /\ \E gone \in BOOLEAN : MergeResolved(w, gone)
          \/ Stable /\ \E error \in MergeErrors : MergeRejected(w, error)
          \/ Stable /\ SetSnapGroupContinues(w, "leaving")
          \/ Stable /\ SetSnapGroupFails(w)
          \/ Stable /\ w \in CommandedWindows /\ Quiescent(w) /\ BringToFront(w)
          \/ Stable /\ w \in ClosingWindows /\ NativeClosing(w)
          \/ Stable /\ \E id \in ActionIds : ActionResolved(w, id)
          \/ Stable /\ \E source \in PairWindows : GroupChangedElsewhere(w, source)
          \/ Stable /\ \E reason \in LeavingReasons, target \in PairTargets, group \in SUBSET PairWindows :
                          GroupChanged(w, w, reason, target, group)
          \/ Stable /\ \E reason \in LeavingReasons, target \in PairTargets, group \in SUBSET PairWindows :
                          \E h \in HandlerIds : GroupChangedWaits(h, w, w, reason, target, group)

SpecTxn == InitTxn /\ [][NextTxn]_vars

\* the same where a call that can continue does, time goes on and a callback
\* whose delay has elapsed runs: the last two happen whenever no call can
\* continue, which is the case again and again
FairTxn ==
    /\ WF_vars(Continues)
    /\ SF_vars(Stable /\ Tick)
    /\ \A t \in TxnIds : SF_vars(Stable /\ DebounceFires(t))

SpecTxnFair == SpecTxn /\ FairTxn

\* transaction() calls that overlap: nothing in transaction() (lines 221-250)
\* keeps a call from starting while another is in progress; the windows are
\* left alone otherwise
ContinuesOverlap ==
    \/ \E t \in TxnIds :
          \/ \E w \in PairWindows : TxnSyncRound(t, w)
          \/ TxnSynced(t)
          \/ TxnUnsnapped(t)
          \/ TxnUnsnapFailed(t)
          \/ TxnSnapped(t)
    \/ \E w \in PairWindows :
          \/ SnapSyncRound(w)
          \/ SnapMerges(w)

StableOverlap == ~ENABLED ContinuesOverlap

NextOverlap ==
    \/ ContinuesOverlap
    \/ \E t \in TxnIds :
          \/ \E ws \in SUBSET PairWindows : StableOverlap /\ TxnStart(t, ws)
          \/ \E w \in PairWindows, ok \in BOOLEAN : StableOverlap /\ LeaveGroupSettles(t, w, ok)
          \/ StableOverlap /\ TransformResolved(t)
          \/ StableOverlap /\ DebounceFires(t)
    \/ StableOverlap /\ Tick
    \/ \E w \in PairWindows : StableOverlap /\ MergeResolved(w, FALSE)

SpecOverlap == InitTxn /\ [][NextOverlap]_vars

\* A and B snapped to each other, minimized and restored by the application
InitMinimize ==
    /\ Constructed([w \in Windows |-> TRUE])
    /\ isWin10 = FALSE
    /\ scope = {"hidden", "state"}
    /\ history = "none"
    /\ last = NoLast
    /\ overrideRun = NoRuns
    /\ trip = NoTrip
    /\ Snapped
    /\ NothingInProgress

NextMinimize ==
    \E w \in PairWindows :
        \/ \E state \in {"minimized", "normal"} : ApplicationSets(w, state)
        \/ EventDelivered(w)
        \/ CommandExecuted(w)

SpecMinimize == InitMinimize /\ [][NextMinimize]_vars

\* every event raised is delivered and every command sent is carried out
FairMinimize ==
    \A w \in PairWindows : WF_vars(EventDelivered(w)) /\ WF_vars(CommandExecuted(w))

SpecMinimizeFair == SpecMinimize /\ FairMinimize

-----------------------------------------------------------------------------
(* group-changed events outside transactions *)

InitGroup ==
    /\ Constructed([w \in Windows |-> TRUE])
    /\ isWin10 = FALSE
    /\ scope = {}
    /\ history = "event"
    /\ last = NoLast
    /\ overrideRun = NoRuns
    /\ trip = NoTrip
    /\ Snapped
    /\ NothingInProgress

\* the steps that continue a call whose awaited promise has settled
ContinuesGroup ==
    \/ \E w \in Windows :
          \/ SnapSyncRound(w)
          \/ SnapSyncFailed(w)
          \/ SnapMerges(w)
          \/ SnapSkipsMerge(w)
          \/ SetSnapGroupContinues(w, "left")
    \/ \E h \in HandlerIds :
          \/ HandlerSyncRound(h)
          \/ HandlerSyncFailed(h)
          \/ GroupChangedResumes(h)

StableGroup == ~ENABLED ContinuesGroup

NextGroup ==
    \/ ContinuesGroup
    \/ \E w \in Windows :
          \/ \E gone \in BOOLEAN : StableGroup /\ MergeResolved(w, gone)
          \/ \E error \in MergeErrors : StableGroup /\ MergeRejected(w, error)
          \/ StableGroup /\ SetSnapGroupContinues(w, "leaving")
          \/ StableGroup /\ SetSnapGroupFails(w)
          \/ StableGroup /\ w \in ClosingWindows /\ NativeClosing(w)
          \/ StableGroup /\ w \in CommandedWindows /\ Quiescent(w) /\ BringToFront(w)
          \/ \E id \in ActionIds : StableGroup /\ ActionResolved(w, id)
          \/ /\ events < MaxEvents /\ StableGroup
             /\ \E source \in Windows : GroupChangedElsewhere(w, source)
          \/ /\ events < MaxEvents /\ StableGroup
             /\ \E source \in Windows, reason \in Reasons, target \in Targets,
                   group \in SUBSET Windows :
                   GroupChanged(w, source, reason, target, group)
          \/ /\ events < MaxEvents /\ StableGroup
             /\ \E h \in HandlerIds, source \in Windows, reason \in Reasons, target \in Targets,
                   group \in SUBSET Windows :
                   GroupChangedWaits(h, w, source, reason, target, group)

SpecGroup == InitGroup /\ [][NextGroup]_vars

-----------------------------------------------------------------------------
(* focus within a snap group *)

\* isMaximizedOrInMaximizedTab() (lines 1263-1271); no window of the model is
\* in a tab group (_tabGroup is null, line 398)
IsMaximizedOrInMaximizedTab(w) == currentState[w].state = "maximized"

\* the windows that handleFocused of window w brings to the front (lines
\* 1185-1188): the other members of its snap group that are neither maximized
\* nor hidden
FocusTargets(w) ==
    IF IsMaximizedOrInMaximizedTab(w) THEN {}
    ELSE {v \in Members(Groups, snapGroup[w]) \ {w} :
            ~IsMaximizedOrInMaximizedTab(v) /\ ~currentState[v].hidden}

\* handleFocused (lines 1183-1194): bringToFront() (lines 650-652) is called on
\* every one of these windows
NativeFocused(w) ==
    LET front == [cmd |-> "bringToFront", arg |-> Empty]
    IN  /\ listeners[w]
        /\ \A v \in FocusTargets(w) : FreeIds(v) # {}
        /\ pendingActions' = [v \in Windows |->
                IF v \in FocusTargets(w) THEN AddPendingActions(v, 1) ELSE pendingActions[v]]
        /\ last' = Last("focused", w, {},
                        [cmds |-> [i \in 1..Cardinality(FocusTargets(w)) |-> front],
                         threw |-> FALSE])
        /\ overrideRun' = RunAfter(w, {})
        /\ UNCHANGED <<lifecycleStage, currentState, applicationState, modifiedState,
                       temporaryState, rejectedActions, listeners, initialFetch, refreshing,
                       isWin10, scope, history, trip, groupVars, procVars>>

\* the two windows snapped to each other, READY, their visibility and window
\* state being what the operations change
InitFocus ==
    /\ Constructed([w \in Windows |-> TRUE])
    /\ isWin10 = FALSE
    /\ scope = {"hidden", "state"}
    /\ history = "last"
    /\ last = NoLast
    /\ overrideRun = NoRuns
    /\ trip = NoTrip
    /\ Snapped
    /\ NothingInProgress

NextFocus ==
    \E w \in PairWindows :
        \/ NativeFocused(w)
        \/ NativeHidden(w)
        \/ NativeShown(w)
        \/ \E state \in WindowStates : ApplyProperties(w, [state |-> state])
        \/ Close(w)
        \/ NativeClosing(w)
        \/ \E id \in ActionIds : ActionResolved(w, id)

SpecFocus == InitFocus /\ [][NextFocus]_vars

-----------------------------------------------------------------------------
(* Claims *)

\* C1: modifiedState is exactly the diff between currentState and
\* applicationState: a property has an entry in modifiedState if and only if its
\* current value differs from the application's value, and the entry is the
\* current value.
C1_ModifiedStateIsDiff ==
    \A w \in Windows : \A p \in Props :
        /\ p \in DOMAIN modifiedState[w] <=> currentState[w][p] # applicationState[w][p]
        /\ p \in DOMAIN modifiedState[w] => modifiedState[w][p] = currentState[w][p]

\* C2: once every SERVICE update of a round trip that started from an unmodified
\* window has been undone in reverse order, modifiedState is empty and
\* currentState equals applicationState.
C2_RoundTripRestores ==
    (trip.phase = "back" /\ trip.undo = <<>>) =>
        \A w \in Windows : modifiedState[w] = Empty /\ currentState[w] = applicationState[w]

\* a round trip of at least two updates that had modified the window is undone
C2_Witness ==
    trip.phase = "back" /\ trip.undo = <<>> /\ trip.n >= 2 /\ trip.dirty

\* C3: a resetOverride that ends a run of N >= 1 applyOverride calls on one
\* property of a READY window leaves the property at the value it had before the
\* first call of the run.
C3_ResetRestoresFirstValue ==
    \A w \in Windows : \A p \in Props :
        overrideRun[w][p].reset => currentState[w][p] = overrideRun[w][p].base

\* a run of at least two overrides, the latest of them applied over an
\* intermediate value that differs from the first, has been reset
C3_Witness ==
    \E w \in Windows : \E p \in Props :
        /\ overrideRun[w][p].reset
        /\ overrideRun[w][p].n >= 2
        /\ overrideRun[w][p].mid # overrideRun[w][p].base

\* C4: temporaryState is a subset of modifiedState: every property with a backup
\* has an entry in modifiedState.
C4_TemporarySubsetOfModified ==
    \A w \in Windows : DOMAIN temporaryState[w] \subseteq DOMAIN modifiedState[w]


\* C10: sync() performs at most MAX_AWAITS (10) wait rounds; it rejects with
\* the sync-timeout error only after all 10 rounds have been performed, and a
\* call that has performed 10 rounds and still found pending actions is rejected
\* with that error: it neither waits an 11th time nor resolves.
C10_SyncBounded ==
    \A s \in Syncs :
        /\ s.count <= MAX_AWAITS
        /\ s.st = "timeout" => s.count = MAX_AWAITS /\ s.left > 0
        /\ (s.count = MAX_AWAITS /\ s.left > 0 /\ s.st \notin {"waiting", "failed"})
              => s.st = "timeout"

\* a sync() has been rejected with the timeout error
C10_Witness ==
    \E w \in Windows : syncCall[w].st = "timeout" /\ pendingActions[w] # {}

\* C5: once a transaction whose transform failed has finished, a native
\* group-merge command has been issued for every window of the transaction
\* that is READY and whose snap group has at least two members
C5_ResnappedAfterFailure ==
    \A t \in TxnIds :
        (transactions[t].pc = "done" /\ transactions[t].failed = "transform")
            => \A w \in transactions[t].windows :
                  (IsReady(w) /\ Len(groupWindows[snapGroup[w]]) >= 2)
                      => w \in transactions[t].merged

\* C6: a group-changed event that concerns a window of a record of
\* activeTransactions, as its source window or as its target window, changes no
\* window's snapGroup or prevGroup
C6_NoChangeWhileActive == ~(lastEvent.concerned /\ lastEvent.changed)

\* C7: the phases of a transaction are ordered: unsnap() is called only once
\* the sync() of every window has resolved, transform is invoked only once the
\* unsnap() of every window has resolved, and a snap() of the transaction is
\* started only by the step in which transform resolves
C7_PhasesOrdered ==
    [][\A t \in TxnIds :
          LET rec == transactions[t]
              next == transactions'[t]
          IN  /\ (\E w \in Windows : rec.unsnap[w] = "none" /\ next.unsnap[w] # "none")
                    => /\ rec.pc = "sync"
                       /\ \A w \in rec.windows : rec.sync[w].st = "resolved"
              /\ (rec.pc # "transform" /\ next.pc = "transform")
                    => /\ rec.pc = "unsnap"
                       /\ \A w \in rec.windows : rec.unsnap[w] = "resolved"
              /\ (\E w \in Windows : snaps[w].owner # t /\ snaps'[w].owner = t)
                    => rec.pc = "transform" /\ next.pc = "snap"]_vars

\* a transaction of two windows is in its last phase, a merge command issued
C7_Witness ==
    \E t \in TxnIds :
        /\ transactions[t].pc = "snap"
        /\ Cardinality(transactions[t].windows) = 2
        /\ \E w \in transactions[t].windows : snaps[w].owner = t /\ snaps[w].st = "merging"

\* C8: the record of a transaction is in activeTransactions in every phase of
\* the call, and is removed only once the call has ended and the debounce
\* delay has elapsed since the later of its end and the last event that was
\* suppressed on its behalf
C8_RecordKept ==
    /\ [](\A t \in TxnIds :
            transactions[t].pc \in {"sync", "unsnap", "transform", "snap"}
                => transactions[t].listed)
    /\ [][\A t \in TxnIds :
            (transactions[t].listed /\ ~transactions'[t].listed)
                => /\ transactions[t].pc = "done"
                   /\ transactions[t].quiet >= DebounceDelay]_vars

\* an event has just been suppressed on behalf of a transaction that has
\* ended: the removal of its record is a whole delay away again
C8_Witness ==
    \E t \in TxnIds :
        /\ lastEvent.op = "suppressed"
        /\ transactions[t].pc = "done"
        /\ transactions[t].listed
        /\ transactions[t].quiet = 0
        /\ transactions[t].timer = DebounceDelay

\* C9: a transaction one of whose steps failed rejects, and the record of a
\* transaction that has ended is removed unless a further event is suppressed
\* on its behalf
C9_FailureReportedRecordRemoved ==
    /\ [](\A t \in TxnIds :
            transactions[t].failed # "none" => transactions[t].result = "rejected")
    /\ \A t \in TxnIds :
          (transactions[t].pc = "done" /\ transactions[t].listed)
              ~> (~transactions[t].listed \/ lastEvent.op = "suppressed")

\* a transaction whose last phase failed has ended, its record not yet removed
C9_Witness ==
    \E t \in TxnIds :
        /\ transactions[t].pc = "done"
        /\ transactions[t].failed = "snap"
        /\ transactions[t].result = "rejected"
        /\ transactions[t].listed

\* C11: in the step in which a sync() resolves, the window has no pending
\* action: actions queued while sync() waited have been awaited too
C11_SyncResolvesQuiescent ==
    [][\A w \in Windows :
          (syncCall[w].st # "resolved" /\ syncCall'[w].st = "resolved")
              => /\ pendingActions'[syncCall'[w].w] = {}
                 /\ rejectedActions'[syncCall'[w].w] = 0]_vars

\* a sync() has resolved after more than one round: an action was queued while
\* it waited
C11_Witness ==
    \E w \in Windows : syncCall[w].st = "resolved" /\ syncCall[w].count >= 2

\* C12: an action is removed from _pendingActions when it completes, by
\* success or by failure: the list holds no promise that has rejected
C12_PendingOnlyInFlight == \A w \in Windows : rejectedActions[w] = 0

\* C13: lifecycleStage moves forward only, STARTING -> READY -> ENDING: a
\* window that is ENDING stays ENDING, and a READY window is never STARTING again
C13_LifecycleForward ==
    [][\A w \in Windows :
          /\ lifecycleStage[w] = "ENDING" => lifecycleStage'[w] = "ENDING"
          /\ lifecycleStage[w] = "READY" => lifecycleStage'[w] # "STARTING"]_vars

\* C14: a native command other than close is issued only against a READY
\* window: a step that is no close() adds a pending action only to windows
\* that are READY
C14_CommandsOnlyWhenReady ==
    [][\A v \in Windows :
          (pendingActions'[v] \ pendingActions[v] # {} /\ last'.op # "close")
              => lifecycleStage[v] = "READY"]_vars

\* C15: a service command whose SERVICE or SERVICE_TEMPORARY update finds the
\* window not READY, updateState throwing the invalid-state error, is reported
\* to its caller as failed
C15_InvalidStateReported == last.threw => Reported(last.op, last.threw) = "rejected"

\* the operations that call updateState with origin APPLICATION
ApplicationOps == {"hidden", "shown", "maximized", "minimized", "restored", "bounds", "refresh"}

\* C16 as claimed: an APPLICATION update of a window that is not READY raises
\* no error and leaves the four state layers as they are
C16_ApplicationUpdateIgnored ==
    [][\A w \in LayerWindows :
          (last'.op \in ApplicationOps /\ ~IsReady(w))
              => /\ ~last'.threw
                 /\ currentState'[w] = currentState[w]
                 /\ applicationState'[w] = applicationState[w]
                 /\ modifiedState'[w] = modifiedState[w]
                 /\ temporaryState'[w] = temporaryState[w]]_vars

\* C16 as the code has it: an APPLICATION update of a window that is not READY
\* raises no error and issues no command, and is applied: modifiedState is
\* left as it is, temporaryState gains no entry, and every field of
\* currentState that changes is the application's value from then on
C16_ApplicationUpdateApplied ==
    [][\A w \in LayerWindows :
          (last'.op \in ApplicationOps /\ ~IsReady(w))
              => /\ ~last'.threw
                 /\ last'.cmds = <<>>
                 /\ pendingActions'[w] = pendingActions[w]
                 /\ modifiedState'[w] = modifiedState[w]
                 /\ DOMAIN temporaryState'[w] \subseteq DOMAIN temporaryState[w]
                 /\ \A p \in Props :
                       currentState'[w][p] # currentState[w][p]
                           => applicationState'[w][p] = currentState'[w][p]]_vars

\* a 'hidden' event has been handled by a window that is ENDING
C16_Witness ==
    \E w \in LayerWindows :
        /\ last.op = "hidden"
        /\ lifecycleStage[w] = "ENDING"
        /\ currentState[w].hidden /\ applicationState[w].hidden

\* C17 as claimed: an APPLICATION update leaves applicationState as it is for
\* every field that has an entry in modifiedState
C17_OverriddenFieldsKept ==
    [][\A w \in LayerWindows :
          last'.op \in ApplicationOps
              => \A p \in DOMAIN modifiedState[w] :
                    applicationState'[w][p] = applicationState[w][p]]_vars

\* C17 as the code has it: an APPLICATION update changes applicationState for
\* the fields whose new value differs from currentState and for no other:
\* applicationState takes the value of every field of currentState that the
\* update changes, with or without an entry in modifiedState, and keeps its
\* value for every other field
C17_UnknownChangesTaken ==
    [][\A w \in LayerWindows :
          last'.op \in ApplicationOps
              => \A p \in Props :
                    IF currentState'[w][p] # currentState[w][p]
                    THEN applicationState'[w][p] = currentState'[w][p]
                    ELSE applicationState'[w][p] = applicationState[w][p]]_vars

\* the application has maximized a window whose state the service had
\* modified: the application's state is the new one, the entry is still there
C17_Witness ==
    \E w \in LayerWindows :
        /\ last.op = "maximized"
        /\ "state" \in DOMAIN modifiedState[w]
        /\ modifiedState[w].state = "minimized"
        /\ applicationState[w].state = "maximized"

\* C18: resetOverride(p) on a READY window restores the backup of p, removes it
\* from temporaryState and issues the commands that a SERVICE update from the
\* overridden value to the backup issues; without a backup it changes no layer
\* and issues no command
C18_ResetRestoresBackup ==
    [][\A w \in LayerWindows :
          (last'.op = "resetOverride" /\ IsReady(w))
              => LET restored == DOMAIN temporaryState[w] \ DOMAIN temporaryState'[w]
                 IN  IF restored = {}
                     THEN /\ currentState'[w] = currentState[w]
                          /\ applicationState'[w] = applicationState[w]
                          /\ modifiedState'[w] = modifiedState[w]
                          /\ temporaryState'[w] = temporaryState[w]
                          /\ last'.cmds = <<>>
                     ELSE \A p \in restored :
                            /\ currentState'[w][p] = temporaryState[w][p]
                            /\ last'.cmds =
                                  Names(Commands([q \in {p} |-> temporaryState[w][p]],
                                                 currentState[w].state,
                                                 currentState[w].resizeConstraints, currentState'[w],
                                                 isWin10))]_vars

\* C19: applyOverride with a value equal to the one the property already has
\* (currentState is left as it was) creates no temporaryState entry, changes no
\* state layer and issues no native command
C19_OverrideIdempotent ==
    [][\A w \in LayerWindows :
          (last'.op = "applyOverride" /\ IsReady(w) /\ currentState'[w] = currentState[w])
              => /\ temporaryState'[w] = temporaryState[w]
                 /\ modifiedState'[w] = modifiedState[w]
                 /\ applicationState'[w] = applicationState[w]
                 /\ last'.cmds = <<>>]_vars

\* C20: applyProperties with a delta whose fields all have their current values
\* (currentState is left as it was) succeeds and issues no native command
C20_UnchangedIssuesNothing ==
    [][\A w \in LayerWindows :
          (last'.op = "applyProperties" /\ IsReady(w) /\ currentState'[w] = currentState[w])
              => /\ Reported(last'.op, last'.threw) = "resolved"
                 /\ last'.cmds = <<>>]_vars

\* C21: a group-changed event delivered to a window that is not its source
\* window is ignored: it changes no snapGroup, no prevGroup and no member list,
\* issues no native command and starts no call
C21_OnlySourceProcesses ==
    [][~lastEvent'.own
          => /\ lastEvent'.op = "ignored"
             /\ lastEvent'.cmds = 0
             /\ UNCHANGED <<groupVars, pendingActions, snaps, regroup, handlers, transactions>>]_vars

\* the report of another member has been ignored in a group of three windows
C21_Witness ==
    /\ lastEvent.op = "ignored"
    /\ ~lastEvent.own
    /\ \E g \in GroupIds : Len(groupWindows[g]) = 3

\* the step has moved window w out of group g into a group that did not exist
\* before and of which it is the only member, every other window staying where
\* it was
MovedToNewGroup(w, g) ==
    /\ snapGroup'[w] # g
    /\ groupWindows'[snapGroup'[w]] = <<w>>
    /\ groupWindows[snapGroup'[w]] = <<>>
    /\ \A v \in Windows : snapGroup[v] # snapGroup'[w]
    /\ ~InSeq(groupWindows'[g], w)
    /\ \A v \in Windows \ {w} : snapGroup'[v] = snapGroup[v]

\* C22: on a self-sourced 'leave' event outside any transaction, the window
\* ends alone in a brand-new snap group if the members of its group are the
\* source group of the event plus the window itself, and keeps its snapGroup
\* otherwise
C22_LeaveMovesToNewGroup ==
    [][(lastEvent'.op = "leave" /\ lastEvent'.own)
          => LET w == lastEvent'.w
                 g == snapGroup[w]
             IN  IF Members(Groups, g) = lastEvent'.group \cup {w}
                 THEN MovedToNewGroup(w, g)
                 ELSE snapGroup'[w] = snapGroup[w]]_vars

\* C22 as the code has it: the window is moved only out of a group that has
\* more than one member
C22_LeaveOfSnappedWindow ==
    [][(lastEvent'.op = "leave" /\ lastEvent'.own)
          => LET w == lastEvent'.w
                 g == snapGroup[w]
             IN  IF Len(groupWindows[g]) > 1 /\ Members(Groups, g) = lastEvent'.group \cup {w}
                 THEN MovedToNewGroup(w, g)
                 ELSE UNCHANGED groupVars]_vars

\* C has left the group {A, B, C}, the event reporting the source group {A, B}
C22_Witness ==
    /\ lastEvent.op = "leave" /\ lastEvent.own
    /\ lastEvent.w = "C" /\ lastEvent.group = {"A", "B"}
    /\ groupWindows[snapGroup["C"]] = <<"C">>
    /\ snapGroup["A"] = snapGroup["B"]
    /\ prevGroup["C"] = snapGroup["A"]

C24_MergeMovesEveryMember ==
    [][(lastEvent'.op = "merge" /\ lastEvent'.own /\ lastEvent'.target \in Windows)
          => LET g == snapGroup[lastEvent'.w]
                 targetGroup == snapGroup[lastEvent'.target]
             IN  /\ \A m \in Members(Groups, g) :
                        snapGroup'[m] = targetGroup /\ InSeq(groupWindows'[targetGroup], m)
                 /\ targetGroup # g => groupWindows'[g] = <<>>]_vars

\* the group {A, B} has been merged into the group of C
C24_Witness ==
    /\ lastEvent.op = "merge" /\ lastEvent.own
    /\ lastEvent.target = "C" /\ lastEvent.w \in PairWindows
    /\ \A w \in Windows : snapGroup[w] = snapGroup["C"]
    /\ prevGroup["A"] = prevGroup["B"] /\ prevGroup["A"] \notin {0, snapGroup["C"]}
    /\ groupWindows[prevGroup["A"]] = <<>>

\* C25: a snap() called on a window whose snap group has fewer than two
\* members, that is not a member of that group, or that is not READY rejects
\* and issues no native command; a call for which the three conditions hold
\* goes on, and mergeGroups is issued by such a call only
C25_SnapPreconditions ==
    [][\A w \in Windows :
          /\ (snaps[w].st = "idle" /\ snaps'[w].st # "idle")
                => /\ pendingActions'[w] = pendingActions[w]
                   /\ IF /\ Len(groupWindows[snapGroup[w]]) >= 2
                         /\ InSeq(groupWindows[snapGroup[w]], w)
                         /\ IsReady(w)
                      THEN snaps'[w].st = "syncing"
                      ELSE snaps'[w].st = "rejected"
          /\ (snaps[w].st # "merging" /\ snaps'[w].st = "merging")
                => snaps[w].st = "syncing" /\ pendingActions'[w] # pendingActions[w]]_vars

\* the snap() that a transaction called on a READY window alone in its group
\* has rejected at once
C25_Witness ==
    \E w \in Windows :
        /\ snaps[w].st = "rejected" /\ snaps[w].owner # 0 /\ snaps[w].group = 0
        /\ IsReady(w)
        /\ groupWindows[snapGroup[w]] = <<w>>

\* C26: when the mergeGroups of snap() fails because the window does not
\* exist, the stage of the window becomes ENDING and the snap() does not fail;
\* when it fails with another error, the snap() fails with it and the stage is
\* left as it was
C26_MergeFailure ==
    [][\A w \in Windows :
          (snaps[w].st = "merging" /\ snaps'[w].st # "merging")
              => /\ lastEvent'.op = "mergeGone"
                    => /\ lifecycleStage'[w] = "ENDING"
                       /\ snaps[w].owner # 0 => snaps'[w].st = "resolved"
                 /\ lastEvent'.op = "mergeError"
                    => /\ lifecycleStage'[w] = lifecycleStage[w]
                       /\ snaps[w].owner # 0 => snaps'[w].st = "rejected"]_vars

\* the window of a READY window's merge was gone: the window is ENDING and the
\* snap() that its transaction awaits has resolved
C26_Witness ==
    /\ lastEvent.op = "mergeGone"
    /\ \E w \in Windows :
          /\ lifecycleStage[w] = "ENDING" /\ listeners[w]
          /\ snaps[w].st = "resolved" /\ snaps[w].owner # 0

-----------------------------------------------------------------------------
(* teardown *)

\* teardown() of window w finishes in this step
TeardownFinishes(w) == teardown[w].pc # "done" /\ teardown'[w].pc = "done"

\* C27 as stated: whichever trigger started teardown, temporaryState is empty
\* and leaveGroup() has been called when onTeardown is emitted, onDestroyed is
\* emitted only after every subscriber of onTeardown has completed, and the
\* stage is ENDING when teardown finishes
C27_TeardownOrder ==
    [][\A w \in LayerWindows :
        LET t == teardown'[w]
        IN  /\ Len(t.signals) >= 1 => t.reverted /\ t.left
            /\ Len(t.signals) = 2 => t.waiting = 0 /\ t.signals = <<"teardown", "destroyed">>
            /\ TeardownFinishes(w) => lifecycleStage'[w] = "ENDING"]_vars

\* C27 amended: a teardown that finds the window READY, which only a
\* deregistration can, resets every override in effect, awaits the commands of
\* the resets and calls leaveGroup() before it emits onTeardown; a teardown
\* that finds the window not READY, as every teardown started by the native
\* closing event does, resets no override and does not call leaveGroup(); in
\* both cases onDestroyed is emitted only after every subscriber of onTeardown
\* has completed, and the stage is ENDING when teardown finishes
C27_TeardownOfReadyWindow ==
    [][\A w \in LayerWindows :
        LET t == teardown'[w]
        IN  /\ t.trigger = "closing" => ~t.ready
            /\ t.pc # "idle" /\ t.ready => t.after = {}
            /\ t.pc # "idle" /\ ~t.ready => t.after = t.before
            /\ Len(t.signals) >= 1 => (t.left <=> t.ready) /\ t.awaits = {}
            /\ Len(t.signals) = 2 => t.waiting = 0 /\ t.signals = <<"teardown", "destroyed">>
            /\ TeardownFinishes(w) => lifecycleStage'[w] = "ENDING"]_vars

\* a deregistration of a READY window with an override in effect has finished
C27_Witness ==
    \E w \in LayerWindows :
        /\ teardown[w].pc = "done"
        /\ teardown[w].trigger = "deregister"
        /\ teardown[w].ready
        /\ teardown[w].before # {}
        /\ teardown[w].left

-----------------------------------------------------------------------------
(* the classification of a drag *)

\* the last step handled a bounds event of a drag on scaled displays
ScaledSample == displayScaling /\ transform.set

\* the last step handled a sample with the given center and half-size of a
\* drag that started at center (100,100), half-size (50,50)
SampleOf(center, halfSize) ==
    /\ ScaledSample
    /\ transform.start = [center |-> Pt(200, 200), halfSize |-> Pt(100, 100)]
    /\ transform.center = center
    /\ transform.halfSize = halfSize

Called(call) == \E i \in DOMAIN transform.calls : transform.calls[i] = call

\* C28 as stated: on scaled displays a sample with center (100,100) and
\* half-size (60,50) of a drag that started at center (100,100), half-size
\* (50,50) and was not classified MOVE before is classified RESIZE, without
\* the MOVE bit
C28_SymmetricResizeIsResize ==
    SampleOf(Pt(200, 200), Pt(120, 100)) /\ transform.prev # MOVE => transform.returned = RESIZE

\* C28 amended: that sample is classified MOVE only, the expected center being
\* (110,100); a sample with center (110,100) and half-size (60,50) of such a
\* drag not classified MOVE before is classified RESIZE only
C28_SymmetricResizeIsMove ==
    /\ SampleOf(Pt(200, 200), Pt(120, 100)) => transform.returned = MOVE
    /\ SampleOf(Pt(220, 200), Pt(120, 100)) /\ transform.prev # MOVE => transform.returned = RESIZE

\* the first sample of the drag, size (60,50) around the unchanged center, has
\* been handled
C28_Witness ==
    /\ SampleOf(Pt(200, 200), Pt(120, 100))
    /\ transform.prev = 0
    /\ transform.op = "changing"

\* C29: on scaled displays the type returned for a sample is never MOVE
\* together with RESIZE; once an axis of a sample of the drag has been judged
\* moved the type returned is MOVE; the sample with center (103,100) and
\* half-size (50,50) of a drag that started at center (100,100), half-size
\* (50,50) is classified MOVE
C29_MoveBias ==
    /\ ScaledSample => transform.returned \in {0, MOVE, RESIZE}
    /\ ScaledSample /\ transform.moved => transform.returned = MOVE
    /\ SampleOf(Pt(206, 200), Pt(100, 100)) => transform.returned = MOVE

\* a sample that moves one axis and resizes the other has been handled in a
\* drag that was classified RESIZE before
C29_Witness ==
    /\ ScaledSample
    /\ transform.prev = RESIZE
    /\ transform.moved
    /\ transform.halfSize # transform.start.halfSize
    /\ transform.returned = MOVE

\* C30 as stated: on scaled displays suspendResizeConstraints is called
\* exactly when the classification of the drag changes to MOVE and
\* restoreResizeConstraints exactly when a classification MOVE ends, so that a
\* restore follows a suspend of the same drag
C30_ConstraintsAtTransitions ==
    ScaledSample =>
        /\ Called("suspendResizeConstraints") <=> (transform.prev # MOVE /\ transform.returned = MOVE)
        /\ Called("restoreResizeConstraints") <=>
               \/ transform.prev = MOVE /\ transform.returned # MOVE
               \/ transform.op = "changed" /\ transform.returned = MOVE
        /\ Called("restoreResizeConstraints") => transform.suspends >= 1

\* C30 amended: on scaled displays suspendResizeConstraints is called exactly
\* when the classification of the drag changes to MOVE, at most once in a
\* drag, and restoreResizeConstraints exactly when the drag is committed,
\* whatever its classification; a bounds event outside a drag or on displays
\* that are not scaled causes neither call
C30_ConstraintsOfDrag ==
    /\ ScaledSample =>
          /\ Called("suspendResizeConstraints") <=> (transform.prev # MOVE /\ transform.returned = MOVE)
          /\ Called("restoreResizeConstraints") <=> transform.op = "changed"
          /\ transform.suspends <= 1
          /\ Len(transform.calls) <= 2
    /\ ~ScaledSample => transform.calls = <<>>

\* a drag that was suspended when it became MOVE has been committed and
\* restored
C30_Witness ==
    /\ ScaledSample
    /\ transform.op = "changed"
    /\ transform.prev = MOVE
    /\ transform.suspends = 1
    /\ transform.calls = <<"restoreResizeConstraints">>

-----------------------------------------------------------------------------
(* refresh *)

\* the query of a refresh() of window w resolves in this step
RefreshResolves(w) == refreshing[w] /\ ~refreshing'[w] /\ last'.op = "refresh"

\* C31: when the query of a refresh() of a READY window resolves with a native state, a field
\* is folded in as an APPLICATION change (currentState takes the native value,
\* applicationState takes it if it differs from currentState, the backup of an
\* override of the field is dropped) if and only if the native value differs
\* from applicationState and also from the entry of the field in
\* modifiedState if there is one, and every other field keeps its layers; a
\* native state equal to currentState changes no layer; refresh() on a window
\* that is not READY starts no query and changes nothing
C31_RefreshFoldsGenuineChanges ==
    [][\A w \in LayerWindows :
        /\ RefreshResolves(w) /\ IsReady(w) =>
              LET state == last'.state
              IN  /\ \A p \in Props :
                        IF /\ state[p] # applicationState[w][p]
                           /\ p \in DOMAIN modifiedState[w] => state[p] # modifiedState[w][p]
                        THEN /\ currentState'[w][p] = state[p]
                             /\ applicationState'[w][p] =
                                   IF state[p] # currentState[w][p] THEN state[p]
                                   ELSE applicationState[w][p]
                             /\ p \notin DOMAIN temporaryState'[w]
                        ELSE /\ currentState'[w][p] = currentState[w][p]
                             /\ applicationState'[w][p] = applicationState[w][p]
                             /\ p \in DOMAIN temporaryState'[w] <=> p \in DOMAIN temporaryState[w]
                  /\ modifiedState'[w] = modifiedState[w]
                  /\ pendingActions'[w] = pendingActions[w]
                  /\ (\A p \in Props : state[p] = currentState[w][p]) =>
                        /\ currentState'[w] = currentState[w]
                        /\ applicationState'[w] = applicationState[w]
                        /\ temporaryState'[w] = temporaryState[w]
        /\ last'.op = "refreshCall" /\ ~IsReady(w) =>
              /\ UNCHANGED <<currentState, applicationState, modifiedState, temporaryState,
                             pendingActions, refreshing>>]_vars

\* a refresh has seen the value of an override in effect in one field and a
\* change of the application in another
C31_Witness ==
    \E w \in LayerWindows :
        /\ last.op = "refresh"
        /\ modifiedState[w] # Empty
        /\ \E p \in DOMAIN modifiedState[w] : last.state[p] = modifiedState[w][p]
        /\ \E p \in Props \ DOMAIN modifiedState[w] :
              last.state[p] = applicationState[w][p] /\ last.state[p] # TemporaryEntityState[p]

-----------------------------------------------------------------------------
(* the target of a snap *)

\* C32: snap() issues mergeGroups only against a window that is READY when
\* the command is issued, a member of the group other than the window itself:
\* the first candidate if it is READY, else another READY member; if the group
\* has no such member the snap ends without a command and without a rejected
\* promise
C32_MergeTargetReady ==
    [][\A w \in Windows :
        LET sn == snaps[w]
            target == snaps'[w].target
            synced == sn.st = "syncing" /\ sn.syncThis.st = "resolved" /\ sn.syncOther.st = "resolved"
            others == {v \in Windows \ {w} : InSeq(groupWindows[sn.group], v) /\ IsReady(v)}
        IN  /\ sn.st # "merging" /\ snaps'[w].st = "merging" =>
                  /\ synced
                  /\ target \in Windows \ {w}
                  /\ IsReady(target) /\ lifecycleStage'[target] = "READY"
                  /\ IF IsReady(sn.other) THEN target = sn.other ELSE target \in others
            /\ synced /\ IsReady(w) /\ sn.group = snapGroup[w] /\ snaps'[w] # sn =>
                  IF ~IsReady(sn.other) /\ others = {}
                  THEN /\ snaps'[w].st \in {"idle", "resolved"}
                       /\ pendingActions' = pendingActions
                       /\ rejectedActions' = rejectedActions
                  ELSE snaps'[w].st = "merging"]_vars

\* a merge with another member than the first candidate, which has left READY
C32_Witness ==
    \E w \in Windows :
        /\ snaps[w].st = "merging"
        /\ snaps[w].target # snaps[w].other
        /\ ~IsReady(snaps[w].other)
        /\ IsReady(snaps[w].target)


-----------------------------------------------------------------------------
(* the maximum sent with resizeConstraints *)

\* the service call recorded in last was an update that carried resizeConstraints
ConstraintsUpdated ==
    /\ history = "options"
    /\ last.op \in {"applyProperties", "applyOverride", "resetOverride"}
    /\ ~last.threw
    /\ last.cmds # <<>>

\* the field of the options sent holds what is due for an axis whose maximum
\* becomes maxSize and was prevMaxSize immediately before the call
MaximumAsDue(options, field, maxSize, prevMaxSize) ==
    IF maxSize # MAX_SAFE_INTEGER
    THEN field \in DOMAIN options /\ options[field] = maxSize
    ELSE IF prevMaxSize # MAX_SAFE_INTEGER
         THEN field \in DOMAIN options /\ options[field] = -1
         ELSE field \notin DOMAIN options

\* C33: when a SERVICE or SERVICE_TEMPORARY update carries resizeConstraints, the
\* maximum sent to the native window for each axis is the numeric maxSize when
\* the new maxSize is a real constraint, the clear sentinel -1 when the new
\* maxSize is the unconstrained sentinel and the window's maxSize immediately
\* before the update was a real constraint, and omitted when both are the
\* unconstrained sentinel
C33_MaximumSent ==
    ConstraintsUpdated =>
        /\ Len(last.cmds) = 1
        /\ last.cmds[1].cmd = "updateOptions"
        /\ MaximumAsDue(last.cmds[1].arg, "maxWidth", last.after.resizeConstraints.x.maxSize,
                        last.before.resizeConstraints.x.maxSize)
        /\ MaximumAsDue(last.cmds[1].arg, "maxHeight", last.after.resizeConstraints.y.maxSize,
                        last.before.resizeConstraints.y.maxSize)

\* the same for the updates of applyProperties and applyOverride only
C33_MaximumSentUnlessReset ==
    (ConstraintsUpdated /\ last.op # "resetOverride") =>
        /\ MaximumAsDue(last.cmds[1].arg, "maxWidth", last.after.resizeConstraints.x.maxSize,
                        last.before.resizeConstraints.x.maxSize)
        /\ MaximumAsDue(last.cmds[1].arg, "maxHeight", last.after.resizeConstraints.y.maxSize,
                        last.before.resizeConstraints.y.maxSize)


-----------------------------------------------------------------------------
(* the drag record and the signals *)

\* the record of window w is active
DragActive(w) == userInitiatedBoundsChange[w].set

\* the record becomes active at a begin event, and inactive at a bounds-changed
\* event, and at no other step
RecordFollowsEvents(w) ==
    /\ DragActive(w)' # DragActive(w) => transform' # transform
    /\ transform' # transform =>
          /\ transform'.op = "begin" => DragActive(w)'
          /\ transform'.op = "changed" => ~DragActive(w)'
          /\ transform'.op = "changing" => DragActive(w)' = DragActive(w)

\* the signal of a bounds event: the commit for a bounds-changed event of an
\* active record, the modified signal for any other bounds-changed event, the
\* transform-in-progress signal for a sample of an active record
SignalFollowsRecord(w) ==
    transform' # transform =>
        /\ transform'.op = "changed" =>
              transform'.signal = IF DragActive(w) THEN "onCommit" ELSE "onModified"
        /\ transform'.op = "changing" =>
              transform'.signal = IF DragActive(w) THEN "onTransform" ELSE "none"
        /\ transform'.op = "begin" => transform'.signal = "none"

\* C34: a bounds-changed event emits the commit and clears the record iff a
\* begin event was received with no bounds-changed event since, and emits the
\* modified signal otherwise; a sample emits the transform-in-progress signal
\* only while a record is active; hence a bounds change caused by a setBounds
\* command of the service is never published as a commit
C34_CommitOnlyOfUserDrag ==
    [][\A w \in LayerWindows :
          /\ RecordFollowsEvents(w)
          /\ SignalFollowsRecord(w)
          /\ transform' # transform /\ transform'.cause = "setBounds" =>
                transform'.signal # "onCommit"]_vars

\* the same without the conclusion about the changes that the service causes
C34_RecordAndSignals ==
    [][\A w \in LayerWindows : RecordFollowsEvents(w) /\ SignalFollowsRecord(w)]_vars


-----------------------------------------------------------------------------
(* failed service calls *)

\* the step is a service call on window w that threw the invalid-state error
FailedCall(w) == last'.threw /\ ~IsReady(w)

\* the model of window w is left as it was and no command is issued
ModelUntouched(w) ==
    /\ currentState'[w] = currentState[w]
    /\ applicationState'[w] = applicationState[w]
    /\ modifiedState'[w] = modifiedState[w]
    /\ temporaryState'[w] = temporaryState[w]
    /\ pendingActions'[w] = pendingActions[w]
    /\ last'.cmds = <<>>

\* C37: a service operation (applyProperties, applyOffset, maximize, minimize,
\* restore, applyOverride, resetOverride) that fails with the invalid-state
\* error on a window that is not READY leaves currentState, applicationState,
\* modifiedState and temporaryState as they were and issues no native command
C37_FailedCallChangesNothing ==
    [][\A w \in LayerWindows : FailedCall(w) => ModelUntouched(w)]_vars

\* the same for every operation but resetOverride
C37_FailedUpdateChangesNothing ==
    [][\A w \in LayerWindows :
          FailedCall(w) /\ last'.op # "resetOverride" => ModelUntouched(w)]_vars


-----------------------------------------------------------------------------
(* a re-snap step that cannot snap every window *)

\* the step in which transform resolves and snap() is called on the windows of t
Resnaps(t) == transactions[t].pc = "transform" /\ transactions'[t].pc = "snap"

\* window w is alone in its snap group or not READY
CannotSnap(w) == ~IsReady(w) \/ Len(groupWindows[snapGroup[w]]) < 2

\* a snap() of the re-snap step of t has rejected
SnapRejected(t) ==
    /\ transactions[t].pc = "snap"
    /\ \E w \in transactions[t].windows : snaps[w].owner = t /\ snaps[w].st = "rejected"

\* C38: if a window of the transaction is alone in its snap group or not READY
\* when the re-snap step runs, its snap() rejects and the snap() of the other
\* windows are started all the same; the transaction then rejects although
\* transform succeeded, the snap() in progress go on, and the record is removed
\* after the debounce delay (a delay that every event ignored for the record
\* starts anew)
C38_ResnapFailureRejects ==
    /\ [][\A t \in TxnIds :
            LET rec == transactions[t]
                next == transactions'[t]
            IN  /\ Resnaps(t) =>
                      \A w \in rec.windows :
                         /\ snaps'[w].owner = t
                         /\ snaps'[w].st = IF CannotSnap(w) THEN "rejected" ELSE "syncing"
                /\ (SnapRejected(t) /\ next.pc # "snap") =>
                      /\ next.pc = "done"
                      /\ next.result = "rejected"
                      /\ next.failed = "snap"
                      /\ next.listed
                      /\ next.timer = DebounceDelay
                      /\ \A w \in rec.windows :
                            snaps[w].st \in {"syncing", "merging"} =>
                               snaps'[w] = [snaps[w] EXCEPT !.owner = 0]]_vars
    /\ \A t \in TxnIds :
          SnapRejected(t) ~> (~transactions[t].listed \/ lastEvent.op = "suppressed")

\* a transaction of two windows has rejected because one of them could not be
\* snapped, while the snap() of the other is in progress
C38_Witness ==
    \E t \in TxnIds : \E w \in Windows :
        /\ transactions[t].pc = "done"
        /\ transactions[t].failed = "snap"
        /\ transactions[t].result = "rejected"
        /\ snaps[w].st \in {"syncing", "merging"}
        /\ w \in transactions[t].windows


-----------------------------------------------------------------------------
(* transactions that share a window *)

\* transaction t is between its detach step and the end of its re-snap step
Detached(t) == transactions[t].pc \in {"unsnap", "transform", "snap"}

\* C36: two transactions whose window sets share a window do not interleave on
\* that window: while one is between its detach step and the end of its re-snap
\* step, the other neither detaches, transforms nor re-snaps the shared window
C36_NoInterleaving ==
    \A t, u \in TxnIds :
        (t # u /\ transactions[t].windows \cap transactions[u].windows # {})
            => ~(Detached(t) /\ Detached(u))


-----------------------------------------------------------------------------
(* minimize and restore in a snap group *)

\* no minimize or restore command is waiting to be carried out and no minimized
\* or restored event is waiting to be delivered
NothingInFlight ==
    \A w \in Windows : native.win[w].commands = <<>> /\ native.win[w].events = <<>>

\* C35: after the application has minimized and restored members of a snap
\* group of visible READY windows a finite number of times, whatever the order
\* in which the events are delivered, the system comes to rest: from some time
\* on no minimize or restore command is pending and no event is in flight
C35_PropagationTerminates == <>[]NothingInFlight

=============================================================================
